---- MODULE Spec2Model ----
(***************************************************************************)
(* Model of the release pipeline of scripts/dev.py (saropa-log-capture):   *)
(* the Step Recorder, the Stage Gate Controller (main and its _run_*        *)
(* orchestrators), the publish steps and the Exit Code Resolver.           *)
(*                                                                         *)
(* A run-log entry is (name, passed); the elapsed time of an entry is not  *)
(* modelled (no decision of the pipeline reads it).  Version strings are   *)
(* modelled as the numbers 1..MaxVersion, compared for equality only.      *)
(* External commands are inputs: each step draws the exit status and the   *)
(* output of the commands it runs with \E.                                 *)
(***************************************************************************)
EXTENDS Integers, Sequences, FiniteSets, TLC

VARIABLES
    args,          \* argparse.Namespace: the boolean command-line flags
    pc,            \* position of main(): the step about to run, or "done"
    results,       \* the run log: sequence of [name, passed]
    exitCode,      \* <<>> while main() runs, <<code>> once it has returned
    version,       \* main()'s local `version` after the analysis phase
    confirmInput,  \* <<>> before the publish gate, <<what the operator gave>>
    cmds,          \* state-changing commands attempted: [step, cmd, ok]
    reports,       \* report files written by save_report: [kind, results]
    pkgVersion,    \* "version" field of package.json (NoVersion: unreadable)
    pkgFields,     \* the other fields of package.json
    changelog,     \* the "## [X.Y.Z] - ..." headers of CHANGELOG.md, in order
    tags,          \* versions v for which the local tag v{v} exists
    remoteTags,    \* versions v whose tag has been pushed to origin
    localCommit,   \* the release commit exists locally
    remoteCommit,  \* the branch with the release commit was pushed to origin
    askInput,      \* a call of ask_yn on its own: what input() produced,
    askDefault,    \*   the default it was given,
    askResult,     \*   and <<>> before the call, <<returned value>> after it
    remoteSync,    \* <<>> before check_remote_sync ran, then <<[input, result]>>:
                   \*   what its git commands answered and what it returned
    workingTree,   \* the Working tree step on its own: <<>> before it ran,
                   \*   then <<[statusOk, dirty, input]>>: what git status and
                   \*   the operator answered
    priorRuns,     \* the publish runs before this invocation that stamped
                   \*   the changelog and then failed, oldest first:
                   \*   [failedAt, exitCode] of each
    observed       \* what a step or function under observation was given
                   \*   and returned, oldest first: the call of check_gh_cli
                   \*   in main(); the calls, prompts and returns of the
                   \*   version reconciler run on its own

vars == <<args, pc, results, exitCode, version, confirmInput, cmds, reports,
          pkgVersion, pkgFields, changelog, tags, remoteTags, localCommit,
          remoteCommit,
          askInput, askDefault, askResult, remoteSync,
          workingTree, observed, priorRuns>>

(***************************************************************************)
(* Bounds of the model.                                                    *)
(***************************************************************************)
MaxLogLen == 3        \* longest run log handed to the resolver on its own
MaxVersion == 2       \* version strings are 1..MaxVersion
MaxAnswerLen == 3     \* characters typed at a prompt

(***************************************************************************)
(* class ExitCode                                                          *)
(***************************************************************************)
SUCCESS == 0
PREREQUISITE_FAILED == 1
WORKING_TREE_DIRTY == 2
REMOTE_SYNC_FAILED == 3
DEPENDENCY_FAILED == 4
COMPILE_FAILED == 5
TEST_FAILED == 6
QUALITY_FAILED == 7
VERSION_INVALID == 8
CHANGELOG_FAILED == 9
PACKAGE_FAILED == 10
GIT_FAILED == 11
PUBLISH_FAILED == 12
RELEASE_FAILED == 13
USER_CANCELLED == 14

MAX_FILE_LINES == 300

\* "unknown" / None / "": no version could be read.
NoVersion == 0

Versions == 1..MaxVersion

(***************************************************************************)
(* Exit Code Resolver                                                      *)
(***************************************************************************)
_STEP_EXIT_CODES ==
    [n \in {"Node.js", "npm", "git", "GitHub CLI", "VS Code CLI", "vsce PAT",
            "Global npm pkgs", "VS Code extensions"} |-> PREREQUISITE_FAILED]
    @@ ("Working tree" :> WORKING_TREE_DIRTY)
    @@ ("Remote sync" :> REMOTE_SYNC_FAILED)
    @@ ("Dependencies" :> DEPENDENCY_FAILED)
    @@ ("Compile" :> COMPILE_FAILED)
    @@ ("Tests" :> TEST_FAILED)
    @@ ("File line limits" :> QUALITY_FAILED)
    @@ ("Version validation" :> VERSION_INVALID)
    @@ ("Finalize CHANGELOG" :> CHANGELOG_FAILED)
    @@ ("Package" :> PACKAGE_FAILED)
    @@ ("Git commit & push" :> GIT_FAILED)
    @@ ("Git tag" :> GIT_FAILED)
    @@ ("Marketplace publish" :> PUBLISH_FAILED)
    @@ ("GitHub release" :> RELEASE_FAILED)

StepNames == DOMAIN _STEP_EXIT_CODES

\* _STEP_EXIT_CODES.get(name, 1)
StepExitCode(name) ==
    IF name \in DOMAIN _STEP_EXIT_CODES THEN _STEP_EXIT_CODES[name] ELSE 1

\* Mutant of ScanReversed: the fall-through `return 1` returns SUCCESS.
RECURSIVE ScanReversedZero(_, _)
ScanReversedZero(log, i) ==
    IF i = 0 THEN SUCCESS
    ELSE IF ~log[i].passed THEN StepExitCode(log[i].name)
    ELSE ScanReversedZero(log, i - 1)

\* The loop `for name, passed, _ in reversed(results)` from index i down.
RECURSIVE ScanReversed(_, _)
ScanReversed(log, i) ==
    IF i = 0 THEN 1
    ELSE IF ~log[i].passed THEN StepExitCode(log[i].name)
    ELSE ScanReversed(log, i - 1)

\* Mutant of _exit_code_from_results: the log is walked front to back.
RECURSIVE ScanForward(_, _)
ScanForward(log, i) ==
    IF i > Len(log) THEN 1
    ELSE IF ~log[i].passed THEN StepExitCode(log[i].name)
    ELSE ScanForward(log, i + 1)

_exit_code_first_failure(log) == ScanForward(log, 1)

\* Mutant of _exit_code_from_results: a non-empty log without a failure
\* yields SUCCESS.
_exit_code_success_if_none(log) ==
    IF log # <<>> /\ \A i \in 1..Len(log) : log[i].passed
    THEN SUCCESS
    ELSE ScanReversed(log, Len(log))

_exit_code_from_results(log) == ScanReversed(log, Len(log))

Entry(name, passed) == [name |-> name, passed |-> passed]

\* Mutant of run_step: the entry is put in front of the log.
run_step_in_front(name, passed) == <<Entry(name, passed)>> \o results

\* run_step / results.append((name, passed, elapsed)): the log after the step.
run_step(name, passed) == Append(results, Entry(name, passed))

(***************************************************************************)
(* Prompts: ask_yn reads one line with input(), which returns the text     *)
(* typed or raises EOFError / KeyboardInterrupt.  A text is a sequence of  *)
(* characters.                                                             *)
(***************************************************************************)
Alphabet == {" ", "y", "Y", "e", "E", "s", "S", "n"}

Texts == UNION {[1..n -> Alphabet] : n \in 0..MaxAnswerLen}

Typed(t) == [kind |-> "text", text |-> t]
Eof == [kind |-> "eof", text |-> <<>>]
Interrupt == [kind |-> "interrupt", text |-> <<>>]

Inputs == {Typed(t) : t \in Texts} \cup {Eof, Interrupt}

\* The answers the pipeline's own prompts are exercised with.
SampleInputs ==
    {Eof, Interrupt, Typed(<<>>), Typed(<<"y">>), Typed(<<" ", "Y", "E", "s">>),
     Typed(<<"n">>), Typed(<<"y", "e">>)}

\* str.lower() on one character.
LowerChar(c) ==
    CASE c = "Y" -> "y"
      [] c = "E" -> "e"
      [] c = "S" -> "s"
      [] OTHER -> c

lower(t) == [i \in 1..Len(t) |-> LowerChar(t[i])]

\* str.strip(): drop the leading, then the trailing whitespace.
RECURSIVE lstrip(_)
lstrip(t) ==
    IF t = <<>> THEN <<>>
    ELSE IF Head(t) = " " THEN lstrip(Tail(t)) ELSE t

RECURSIVE rstrip(_)
rstrip(t) ==
    IF t = <<>> THEN <<>>
    ELSE IF t[Len(t)] = " " THEN rstrip(SubSeq(t, 1, Len(t) - 1)) ELSE t

strip(t) == rstrip(lstrip(t))

ask_yn(inp, default) ==
    IF inp.kind \in {"eof", "interrupt"} THEN default
    ELSE LET answer == lower(strip(inp.text))
         IN  IF answer = <<>> THEN default
             ELSE answer \in {<<"y">>, <<"y", "e", "s">>}

\* Mutant of confirm_publish: the prompt defaults to "yes".
confirm_publish_default_yes(inp) == ask_yn(inp, TRUE)

confirm_publish(inp) == ask_yn(inp, FALSE)

(***************************************************************************)
(* Step functions.  Each is the function's return value as a function of   *)
(* what the commands it runs answered.                                     *)
(***************************************************************************)
NodeMajors == {16, 18, 20}

check_node(rcOk, major) == rcOk /\ major >= 18

check_npm(rcOk) == rcOk

check_git(rcOk) == rcOk

\* Mutant of check_gh_cli: a timed-out `gh auth status` counts as
\* authenticated.
check_gh_cli_timeout_passes(which, auth) == which /\ auth \in {"ok", "timeout"}

\* `auth` is "ok", "fail" (non-zero exit) or "timeout" (TimeoutExpired).
check_gh_cli(which, auth) == which /\ auth = "ok"

\* A call of check_gh_cli: what `shutil.which("gh")` and `gh auth status`
\* answered, the value returned and the runs of `gh auth status`.
GhCliCall(which, auth) ==
    [input |-> [which |-> which, auth |-> auth],
     passed |-> check_gh_cli(which, auth),
     ran |-> IF which THEN <<[cmd |-> "gh auth status", ok |-> auth = "ok"]>>
             ELSE <<>>]

check_vsce_auth(rcOk, unknownCommand) == rcOk \/ unknownCommand

\* Non-blocking: warns when `code` is not on PATH.
check_vscode_cli(which) == TRUE

\* `installed`: the required packages npm lists; `installable`: those whose
\* `npm install -g` succeeds.
REQUIRED_GLOBAL_NPM_PACKAGES == {"yo", "generator-code"}

check_global_npm_packages(installed, installable) ==
    \A pkg \in REQUIRED_GLOBAL_NPM_PACKAGES :
        pkg \in installed \/ pkg \in installable

REQUIRED_VSCODE_EXTENSIONS ==
    {"connor4312.esbuild-problem-matchers", "dbaeumer.vscode-eslint",
     "ms-vscode.extension-test-runner"}

check_vscode_extensions(which, listOk, installed, installable) ==
    IF ~which \/ ~listOk THEN TRUE
    ELSE \A ext \in REQUIRED_VSCODE_EXTENSIONS :
             ext \in installed \/ ext \in installable

\* Mutant of check_working_tree: a dirty tree fails without asking.
check_working_tree_strict(statusOk, dirty, inp) == statusOk /\ ~dirty

check_working_tree(statusOk, dirty, inp) ==
    IF ~statusOk THEN FALSE
    ELSE IF ~dirty THEN TRUE
    ELSE ask_yn(inp, FALSE)

\* Commit hashes printed by git rev-parse / git merge-base; NoCommit is the
\* empty output of a failed command.
Commits == {"c1", "c2", "c3"}
NoCommit == "none"

\* A git command that was run, and whether it exited with 0.
Git(cmd, ok) == [cmd |-> cmd, ok |-> ok]

\* Mutant of _check_if_behind: whenever local differs from upstream it
\* pulls, merging if the histories diverged.
_check_if_behind_merge(upstreamOk, local, remote, base, pullOk) ==
    LET revs == <<Git("git rev-parse HEAD", local # NoCommit),
                  Git("git rev-parse @{u}", upstreamOk)>>
    IN  IF ~upstreamOk \/ local = remote
        THEN [branch |-> "no upstream or up to date", passed |-> TRUE, pulled |-> FALSE, head |-> local, ran |-> revs]
        ELSE [branch |-> "behind", passed |-> pullOk, pulled |-> TRUE,
              head |-> IF pullOk THEN remote ELSE local,
              ran |-> revs \o <<Git("git merge-base HEAD @{u}", base # NoCommit),
                                Git("git pull", pullOk)>>]

\* Mutant of _check_if_behind: the exit status of the pull is not looked at.
_check_if_behind_ignore_pull(upstreamOk, local, remote, base, pullOk) ==
    LET revs == <<Git("git rev-parse HEAD", local # NoCommit),
                  Git("git rev-parse @{u}", upstreamOk)>>
        mb == <<Git("git merge-base HEAD @{u}", base # NoCommit)>>
    IN  IF ~upstreamOk \/ local = remote
        THEN [branch |-> "no upstream or up to date", passed |-> TRUE, pulled |-> FALSE, head |-> local, ran |-> revs]
        ELSE IF base = local
        THEN [branch |-> "behind", passed |-> TRUE, pulled |-> TRUE,
              head |-> IF pullOk THEN remote ELSE local,
              ran |-> revs \o mb \o <<Git("git pull --ff-only", pullOk)>>]
        ELSE [branch |-> "ahead", passed |-> TRUE, pulled |-> FALSE, head |-> local,
              ran |-> revs \o mb]

\* Returns [branch, passed, pulled, head, ran]: the branch of the function
\* taken, named by what it reports there; the result; whether
\* `git pull --ff-only` ran, the local HEAD afterwards (a fast-forward that
\* succeeds moves it to the upstream HEAD) and the git commands run, in order.
\* `local`, `remote`, `base`: the stripped stdout of the two rev-parse calls
\* and of merge-base.
_check_if_behind(upstreamOk, local, remote, base, pullOk) ==
    LET revs == <<Git("git rev-parse HEAD", local # NoCommit),
                  Git("git rev-parse @{u}", upstreamOk)>>
        mb == <<Git("git merge-base HEAD @{u}", base # NoCommit)>>
    IN  IF ~upstreamOk
        THEN [branch |-> "no upstream", passed |-> TRUE, pulled |-> FALSE, head |-> local, ran |-> revs]
        ELSE IF local = remote
        THEN [branch |-> "up to date", passed |-> TRUE, pulled |-> FALSE, head |-> local, ran |-> revs]
        ELSE IF base = local
        THEN [branch |-> "behind", passed |-> pullOk, pulled |-> TRUE,
              head |-> IF pullOk THEN remote ELSE local,
              ran |-> revs \o mb \o <<Git("git pull --ff-only", pullOk)>>]
        ELSE [branch |-> "ahead", passed |-> TRUE, pulled |-> FALSE, head |-> local,
              ran |-> revs \o mb]

\* Mutant of check_remote_sync: a failed fetch is not looked at.
check_remote_sync_ignore_fetch(fetchOk, upstreamOk, local, remote, base, pullOk) ==
    LET b == _check_if_behind(upstreamOk, local, remote, base, pullOk)
    IN  [b EXCEPT !.ran = <<Git("git fetch origin", fetchOk)>> \o b.ran]

check_remote_sync(fetchOk, upstreamOk, local, remote, base, pullOk) ==
    IF ~fetchOk
    THEN [branch |-> "fetch failed", passed |-> FALSE, pulled |-> FALSE, head |-> local,
          ran |-> <<Git("git fetch origin", FALSE)>>]
    ELSE LET b == _check_if_behind(upstreamOk, local, remote, base, pullOk)
         IN  [b EXCEPT !.ran = <<Git("git fetch origin", TRUE)>> \o b.ran]

\* What the git commands of check_remote_sync answer.
GitAnswers(fetchOk, upstreamOk, local, remote, base, pullOk) ==
    [fetchOk |-> fetchOk, upstreamOk |-> upstreamOk, local |-> local,
     remote |-> remote, base |-> base, pullOk |-> pullOk]

SyncInputs ==
    [fetchOk : BOOLEAN, upstreamOk : BOOLEAN, local : Commits \cup {NoCommit},
     remote : Commits, base : Commits \cup {NoCommit}, pullOk : BOOLEAN]

\* The answers the pipeline's own Remote sync step is exercised with: the
\* fetch fails; no upstream; up to date; behind (the pull succeeds, fails);
\* ahead; diverged.
SampleSyncInputs ==
    {GitAnswers(FALSE, TRUE, "c1", "c2", "c1", TRUE),
     GitAnswers(TRUE, FALSE, "c1", "c1", NoCommit, TRUE),
     GitAnswers(TRUE, TRUE, "c1", "c1", "c1", TRUE),
     GitAnswers(TRUE, TRUE, "c1", "c2", "c1", TRUE),
     GitAnswers(TRUE, TRUE, "c1", "c2", "c1", FALSE),
     GitAnswers(TRUE, TRUE, "c2", "c1", "c1", TRUE),
     GitAnswers(TRUE, TRUE, "c2", "c3", "c1", TRUE)}

\* check_remote_sync on the answers `g`: [input, result].
SyncCall(g) ==
    [input |-> g,
     result |-> check_remote_sync(g.fetchOk, g.upstreamOk, g.local, g.remote,
                                  g.base, g.pullOk)]

_run_npm_install(npmOk) == npmOk

ensure_dependencies(pkgJson, nodeModules, lock, pkgNewer, npmOk) ==
    IF ~pkgJson THEN FALSE
    ELSE IF ~nodeModules THEN _run_npm_install(npmOk)
    ELSE IF lock /\ pkgNewer THEN _run_npm_install(npmOk)
    ELSE TRUE

step_compile(rcOk) == rcOk

step_test(rcOk) == rcOk

\* `counts`: the line counts of the .ts files under src/.
LineCounts == {MAX_FILE_LINES - 1, MAX_FILE_LINES, MAX_FILE_LINES + 1}

check_file_line_limits(counts) == \A c \in counts : ~(c > MAX_FILE_LINES)

(***************************************************************************)
(* Version and CHANGELOG.  A header of CHANGELOG.md is [version, current]: *)
(* "## [version] - Current" when current, "## [version] - <date>" if not.  *)
(***************************************************************************)
Headers == [version : Versions, current : BOOLEAN]

\* CHANGELOG.md with no header, one header or two headers.
Changelogs ==
    {<<>>} \cup {<<h>> : h \in Headers} \cup {<<h, k>> : h \in Headers, k \in Headers}

\* The first "- Current" header's version, or None.
RECURSIVE FirstCurrent(_, _)
FirstCurrent(cl, i) ==
    IF i > Len(cl) THEN NoVersion
    ELSE IF cl[i].current THEN cl[i].version
    ELSE FirstCurrent(cl, i + 1)

read_changelog_current_version(cl) == FirstCurrent(cl, 1)

read_package_version == pkgVersion

\* `git tag -l v<v>` prints the tag if it exists; the function looks at the
\* output only, so a query that fails (`queryOk` false: no output) reads as
\* "not tagged".
check_version_not_tagged(v, queryOk) == ~(queryOk /\ v \in tags)

Cmd(cmd, ok) == [cmd |-> cmd, ok |-> ok]

\* Did `cmd` run successfully in the command sequence `ran`?
Succeeded(ran, cmd) == \E i \in 1..Len(ran) : ran[i] = Cmd(cmd, TRUE)

\* The commands `ran`, as entries of `cmds`: each with the step that ran it.
By(step, ran) ==
    [i \in 1..Len(ran) |-> [step |-> step, cmd |-> ran[i].cmd, ok |-> ran[i].ok]]

\* The fields of package.json other than "version".
PackageFields == [name |-> "saropa-log-capture", publisher |-> "saropa"]

\* package.json as json.load reads it.
Manifest == [version |-> pkgVersion, fields |-> pkgFields]

\* Mutant of _sync_package_version: it reports success but writes the
\* manifest back with the version it had.
_sync_package_version_keep(target, writeOk) ==
    [ok |-> writeOk, ran |-> <<Cmd("write package.json", writeOk)>>,
     data |-> Manifest]

\* Returns [ok, ran, data]: the result, the write of package.json attempted
\* and the manifest afterwards: data["version"] = target, written back.
_sync_package_version(target, writeOk) ==
    [ok |-> writeOk, ran |-> <<Cmd("write package.json", writeOk)>>,
     data |-> IF writeOk THEN [Manifest EXCEPT !.version = target]
              ELSE Manifest]

\* Returns [version, ok, ran, data]: the pair the function returns, the
\* writes attempted and package.json afterwards.  `writeOk`: a rewrite of
\* package.json succeeds; `tagQueryOk`: `git tag -l` runs successfully.
validate_version_changelog(writeOk, tagQueryOk) ==
    LET cl_version == read_changelog_current_version(changelog)
        pkg_version == read_package_version
        sync == IF cl_version # pkg_version
                THEN _sync_package_version(cl_version, writeOk)
                ELSE [ok |-> TRUE, ran |-> <<>>, data |-> Manifest]
    IN  IF cl_version = NoVersion
        THEN [version |-> NoVersion, ok |-> FALSE, ran |-> <<>>,
              data |-> Manifest]
        ELSE IF pkg_version = NoVersion
        THEN [version |-> pkg_version, ok |-> FALSE, ran |-> <<>>,
              data |-> Manifest]
        ELSE IF ~sync.ok
        THEN [version |-> pkg_version, ok |-> FALSE, ran |-> sync.ran,
              data |-> sync.data]
        ELSE [version |-> cl_version,
              ok |-> check_version_not_tagged(cl_version, tagQueryOk),
              ran |-> sync.ran, data |-> sync.data]

\* re.subn of "## [v] - Current" by "## [v] - <today>": the new content.
Stamped(cl, v) ==
    [i \in 1..Len(cl) |->
        IF cl[i].version = v /\ cl[i].current
        THEN [cl[i] EXCEPT !.current = FALSE]
        ELSE cl[i]]

\* The count re.subn returns.
CurrentCount(cl, v) ==
    Cardinality({i \in 1..Len(cl) : cl[i].version = v /\ cl[i].current})

\* Returns [ok, ran, content]: the result, the write attempted and
\* CHANGELOG.md afterwards.
finalize_changelog_keep_marker(v, readOk, writeOk) ==
    IF ~readOk THEN [ok |-> FALSE, ran |-> <<>>, content |-> changelog]
    ELSE IF CurrentCount(changelog, v) = 0
    THEN [ok |-> FALSE, ran |-> <<>>, content |-> changelog]
    ELSE [ok |-> writeOk,
          ran |-> <<Cmd("write CHANGELOG.md", writeOk)>>,
          content |-> changelog]

finalize_changelog(v, readOk, writeOk) ==
    IF ~readOk THEN [ok |-> FALSE, ran |-> <<>>, content |-> changelog]
    ELSE IF CurrentCount(changelog, v) = 0
    THEN [ok |-> FALSE, ran |-> <<>>, content |-> changelog]
    ELSE [ok |-> writeOk,
          ran |-> <<Cmd("write CHANGELOG.md", writeOk)>>,
          content |-> IF writeOk THEN Stamped(changelog, v) ELSE changelog]

\* The .vsix path, or None: vsce package must succeed and leave a .vsix.
NoVsix == "None"
step_package(rcOk, vsixFound) ==
    IF rcOk /\ vsixFound THEN "saropa-log-capture.vsix" ELSE NoVsix

\* Returns [ok, ran]: the result and the state-changing commands attempted.
_push_to_origin(pushOk) ==
    [ok |-> pushOk, ran |-> <<Cmd("git push origin branch", pushOk)>>]

git_commit_and_push(hasChanges, commitOk, pushOk) ==
    IF ~hasChanges THEN [ok |-> TRUE, ran |-> <<>>]
    ELSE IF ~commitOk THEN [ok |-> FALSE, ran |-> <<Cmd("git commit", FALSE)>>]
    ELSE LET push == _push_to_origin(pushOk)
         IN  [ok |-> push.ok, ran |-> <<Cmd("git commit", TRUE)>> \o push.ran]

create_git_tag(tagOk, pushOk) ==
    IF ~tagOk THEN [ok |-> FALSE, ran |-> <<Cmd("git tag -a", FALSE)>>]
    ELSE [ok |-> pushOk,
          ran |-> <<Cmd("git tag -a", TRUE), Cmd("git push origin tag", pushOk)>>]

\* Mutant of publish_marketplace: a failed upload deletes the release tag.
publish_marketplace_rollback(rcOk) ==
    IF rcOk THEN [ok |-> TRUE, ran |-> <<Cmd("vsce publish", TRUE)>>]
    ELSE [ok |-> FALSE,
          ran |-> <<Cmd("vsce publish", FALSE),
                    Cmd("git push --delete origin tag", TRUE),
                    Cmd("git tag -d", TRUE)>>]

publish_marketplace(rcOk) ==
    [ok |-> rcOk, ran |-> <<Cmd("vsce publish", rcOk)>>]

create_github_release(rcOk) ==
    [ok |-> rcOk, ran |-> <<Cmd("gh release create", rcOk)>>]

(***************************************************************************)
(* Report Sink                                                             *)
(***************************************************************************)
save_report(log, is_publish) ==
    Append(reports, [kind |-> IF is_publish THEN "publish" ELSE "analyze",
                     results |-> log])

_save_and_print_report(log) == save_report(log, FALSE)

_finish_with_report(log) == save_report(log, TRUE)

(***************************************************************************)
(* What each analysis step can return, over every answer of the commands   *)
(* it runs and of the operator it prompts.                                 *)
(***************************************************************************)
NodeOutcomes == {check_node(rcOk, major) : rcOk \in BOOLEAN, major \in NodeMajors}

GhCliOutcomes ==
    {GhCliCall(which, auth) :
        which \in BOOLEAN, auth \in {"ok", "fail", "timeout"}}

VsceAuthOutcomes ==
    {check_vsce_auth(rcOk, unknownCommand) :
        rcOk \in BOOLEAN, unknownCommand \in BOOLEAN}

GlobalNpmOutcomes ==
    {check_global_npm_packages(installed, installable) :
        installed \in SUBSET REQUIRED_GLOBAL_NPM_PACKAGES,
        installable \in SUBSET REQUIRED_GLOBAL_NPM_PACKAGES}

VSCodeExtensionsOutcomes ==
    {check_vscode_extensions(which, listOk, installed, installable) :
        which \in BOOLEAN, listOk \in BOOLEAN,
        installed \in SUBSET REQUIRED_VSCODE_EXTENSIONS,
        installable \in SUBSET REQUIRED_VSCODE_EXTENSIONS}

WorkingTreeOutcomes ==
    {check_working_tree(statusOk, dirty, inp) :
        statusOk \in BOOLEAN, dirty \in BOOLEAN, inp \in SampleInputs}

RemoteSyncOutcomes == {SyncCall(g) : g \in SampleSyncInputs}

DependenciesOutcomes ==
    {ensure_dependencies(pkgJson, nodeModules, lock, pkgNewer, npmOk) :
        pkgJson \in BOOLEAN, nodeModules \in BOOLEAN, lock \in BOOLEAN,
        pkgNewer \in BOOLEAN, npmOk \in BOOLEAN}

FileLineLimitsOutcomes ==
    {check_file_line_limits(counts) : counts \in SUBSET LineCounts}

(***************************************************************************)
(* Stage Gate Controller: main() and its orchestrators, one action per     *)
(* step.  A step's action covers everything main() does until the next     *)
(* step starts or main() returns.                                          *)
(***************************************************************************)
Flags ==
    [analyze_only : BOOLEAN, skip_tests : BOOLEAN, skip_extensions : BOOLEAN,
     skip_global_npm : BOOLEAN, auto_install : BOOLEAN]

worldVars ==
    <<pkgVersion, pkgFields, changelog, tags, remoteTags, localCommit,
      remoteCommit>>
askVars == <<askInput, askDefault, askResult>>

Init ==
    /\ args \in Flags
    /\ pc = "Node.js"
    /\ results = <<>>
    /\ exitCode = <<>>
    /\ pkgVersion \in Versions \cup {NoVersion}
    /\ pkgFields = PackageFields
    /\ version = pkgVersion
    /\ confirmInput = <<>>
    /\ cmds = <<>>
    /\ reports = <<>>
    /\ changelog \in Changelogs
    /\ tags \in SUBSET Versions
    /\ remoteTags = tags
    /\ localCommit = FALSE
    /\ remoteCommit = FALSE
    /\ remoteSync = <<>>
    /\ workingTree = <<>>
    /\ observed = <<>>
    /\ askInput = Eof
    /\ askDefault = FALSE
    /\ askResult = <<>>
    /\ priorRuns = <<>>

\* Where main() goes after a step passes; a skipped step is not run.
AfterPrerequisites ==
    IF ~args.skip_global_npm THEN "Global npm pkgs"
    ELSE IF ~args.skip_extensions THEN "VS Code extensions"
    ELSE "Working tree"

\* Mutant of AfterVSCodeCLI: the credential checks are left out of publish
\* runs too.
AfterVSCodeCLINoCredentials == AfterPrerequisites

AfterVSCodeCLI == IF ~args.analyze_only THEN "GitHub CLI" ELSE AfterPrerequisites

AfterGlobalNpm ==
    IF ~args.skip_extensions THEN "VS Code extensions" ELSE "Working tree"

AfterCompile == IF args.skip_tests THEN "File line limits" ELSE "Tests"

\* Mutant of AfterAnalysis: an analyze-only run goes on to the publish gate.
AfterAnalysisAlwaysConfirm == "confirm"

\* Mutant of AfterAnalysis: a publish run packages right after the analysis,
\* before any confirmation.
AfterAnalysisPackageFirst ==
    IF args.analyze_only THEN "finish_analyze_only" ELSE "Package"

AfterAnalysis == IF args.analyze_only THEN "finish_analyze_only" ELSE "confirm"

\* A step of the analysis phase returned `passed`: it is recorded; if it
\* failed, the orchestrators return ("", False) and main() prints the timing,
\* saves the report and returns the exit code derived from the log.
AnalysisStepContinue(name, passed, next) ==
    /\ results' = run_step(name, passed)
    /\ pc' = next
    /\ UNCHANGED <<exitCode, reports>>

AnalysisStep(name, passed, next) ==
    /\ results' = run_step(name, passed)
    /\ IF passed
       THEN /\ pc' = next
            /\ UNCHANGED <<exitCode, reports>>
       ELSE /\ reports' = _save_and_print_report(results')
            /\ exitCode' = <<_exit_code_from_results(results')>>
            /\ pc' = "done"

\* Mutant of PublishStep: a failed step does not stop the publish phase.
PublishStepContinue(name, passed, next) ==
    /\ results' = run_step(name, passed)
    /\ pc' = next
    /\ UNCHANGED exitCode

\* Mutant of PublishStep: a failed step is run again.
PublishStepRetry(name, passed, next) ==
    /\ results' = run_step(name, passed)
    /\ pc' = IF passed THEN next ELSE name
    /\ UNCHANGED exitCode

\* A step of the publish phase returned `passed`: it is recorded; if it
\* failed, _run_publish returns False and main() returns the exit code
\* derived from the log.
PublishStep(name, passed, next) ==
    /\ results' = run_step(name, passed)
    /\ IF passed
       THEN /\ pc' = next
            /\ UNCHANGED exitCode
       ELSE /\ exitCode' = <<_exit_code_from_results(results')>>
            /\ pc' = "done"

\* An analysis step that changes nothing but the log.
PureAnalysisStep(name, passed, next) ==
    /\ AnalysisStep(name, passed, next)
    /\ version' = IF passed THEN version ELSE NoVersion
    /\ UNCHANGED <<args, confirmInput, cmds, worldVars, askVars,
                   remoteSync, workingTree, observed>>

StepNodeJs ==
    /\ pc = "Node.js"
    /\ \E passed \in NodeOutcomes : PureAnalysisStep("Node.js", passed, "npm")
    /\ UNCHANGED priorRuns

StepNpm ==
    /\ pc = "npm"
    /\ \E rcOk \in BOOLEAN : PureAnalysisStep("npm", check_npm(rcOk), "git")
    /\ UNCHANGED priorRuns

StepGit ==
    /\ pc = "git"
    /\ \E rcOk \in BOOLEAN :
        PureAnalysisStep("git", check_git(rcOk), "VS Code CLI")
    /\ UNCHANGED priorRuns

StepVSCodeCLI ==
    /\ pc = "VS Code CLI"
    /\ \E which \in BOOLEAN :
        PureAnalysisStep("VS Code CLI", check_vscode_cli(which), AfterVSCodeCLI)
    /\ UNCHANGED priorRuns

StepGitHubCLI ==
    /\ pc = "GitHub CLI"
    /\ \E o \in GhCliOutcomes :
        /\ AnalysisStep("GitHub CLI", o.passed, "vsce PAT")
        /\ version' = IF o.passed THEN version ELSE NoVersion
        /\ observed' = <<o>>
    /\ UNCHANGED <<args, confirmInput, cmds, worldVars, askVars,
                   remoteSync, workingTree>>
    /\ UNCHANGED priorRuns

StepVscePAT ==
    /\ pc = "vsce PAT"
    /\ \E passed \in VsceAuthOutcomes :
        PureAnalysisStep("vsce PAT", passed, AfterPrerequisites)
    /\ UNCHANGED priorRuns

StepGlobalNpmPkgs ==
    /\ pc = "Global npm pkgs"
    /\ \E passed \in GlobalNpmOutcomes :
        PureAnalysisStep("Global npm pkgs", passed, AfterGlobalNpm)
    /\ UNCHANGED priorRuns

StepVSCodeExtensions ==
    /\ pc = "VS Code extensions"
    /\ \E passed \in VSCodeExtensionsOutcomes :
        PureAnalysisStep("VS Code extensions", passed, "Working tree")
    /\ UNCHANGED priorRuns

StepWorkingTree ==
    /\ pc = "Working tree"
    /\ \E passed \in WorkingTreeOutcomes :
        PureAnalysisStep("Working tree", passed, "Remote sync")
    /\ UNCHANGED priorRuns

\* Step 5 with check_remote_sync's git commands answering as one of
\* `outcomes` says.
RemoteSyncStep(outcomes) ==
    /\ pc = "Remote sync"
    /\ \E o \in outcomes :
        LET r == o.result
        IN  /\ AnalysisStep("Remote sync", r.passed, "Dependencies")
            /\ version' = IF r.passed THEN version ELSE NoVersion
            /\ cmds' = IF r.pulled
                       THEN cmds \o By("Remote sync",
                                       <<Cmd("git pull --ff-only", r.passed)>>)
                       ELSE cmds
            /\ remoteSync' = <<o>>
    /\ UNCHANGED <<args, confirmInput, worldVars, askVars, workingTree, observed>>
    /\ UNCHANGED priorRuns

StepRemoteSync == RemoteSyncStep(RemoteSyncOutcomes)

StepDependencies ==
    /\ pc = "Dependencies"
    /\ \E passed \in DependenciesOutcomes :
        PureAnalysisStep("Dependencies", passed, "Compile")
    /\ UNCHANGED priorRuns

StepCompile ==
    /\ pc = "Compile"
    /\ \E rcOk \in BOOLEAN :
        PureAnalysisStep("Compile", step_compile(rcOk), AfterCompile)
    /\ UNCHANGED priorRuns

StepTests ==
    /\ pc = "Tests"
    /\ \E rcOk \in BOOLEAN :
        PureAnalysisStep("Tests", step_test(rcOk), "File line limits")
    /\ UNCHANGED priorRuns

StepFileLineLimits ==
    /\ pc = "File line limits"
    /\ \E passed \in FileLineLimitsOutcomes :
        PureAnalysisStep("File line limits", passed, "Version validation")
    /\ UNCHANGED priorRuns

StepVersionValidation ==
    /\ pc = "Version validation"
    /\ \E writeOk \in BOOLEAN, tagQueryOk \in BOOLEAN :
        LET v == validate_version_changelog(writeOk, tagQueryOk)
        IN  /\ AnalysisStep("Version validation", v.ok, AfterAnalysis)
            /\ version' = IF v.ok THEN v.version ELSE NoVersion
            /\ cmds' = cmds \o By("Version validation", v.ran)
            /\ pkgVersion' = v.data.version
            /\ pkgFields' = v.data.fields
    /\ UNCHANGED <<args, confirmInput, changelog, tags, remoteTags,
                   localCommit, remoteCommit, askVars, remoteSync, workingTree, observed>>
    /\ UNCHANGED priorRuns

\* Returns the install commands attempted.
_auto_install_vsix(installOk) == <<Cmd("code --install-extension", installOk)>>

prompt_install(which, inp, installOk) ==
    IF ~which THEN <<>>
    ELSE IF ~ask_yn(inp, FALSE) THEN <<>>
    ELSE <<Cmd("code --install-extension", installOk)>>

\* _finish_analyze_only: package, save the report, offer the local install.
FinishAnalyzeOnly ==
    /\ pc = "finish_analyze_only"
    /\ \E rcOk \in BOOLEAN, vsixFound \in BOOLEAN, which \in BOOLEAN,
          inp \in SampleInputs, installOk \in BOOLEAN :
        LET vsix_path == step_package(rcOk, vsixFound)
            install == IF args.auto_install
                       THEN _auto_install_vsix(installOk)
                       ELSE prompt_install(which, inp, installOk)
        IN  /\ results' = run_step("Package", vsix_path # NoVsix)
            /\ reports' = save_report(results', FALSE)
            /\ IF vsix_path = NoVsix
               THEN /\ exitCode' = <<PACKAGE_FAILED>>
                    /\ cmds' = cmds
               ELSE /\ exitCode' = <<SUCCESS>>
                    /\ cmds' = cmds \o By("install", install)
    /\ pc' = "done"
    /\ UNCHANGED <<args, version, confirmInput, worldVars, askVars,
                   remoteSync, workingTree, observed>>
    /\ UNCHANGED priorRuns

\* Mutant of PublishConfirmation: a decline exits with the code derived from
\* the run log.
PublishConfirmationDerived ==
    /\ pc = "confirm"
    /\ \E inp \in SampleInputs :
        /\ confirmInput' = <<inp>>
        /\ IF confirm_publish(inp)
           THEN /\ pc' = "Finalize CHANGELOG"
                /\ UNCHANGED exitCode
           ELSE /\ exitCode' = <<_exit_code_from_results(results)>>
                /\ pc' = "done"
    /\ UNCHANGED <<args, results, version, cmds, reports, worldVars, askVars,
                   remoteSync, workingTree, observed>>
    /\ UNCHANGED priorRuns

\* main(): the confirmation gate between the analysis and the publish phase.
PublishConfirmation ==
    /\ pc = "confirm"
    /\ \E inp \in SampleInputs :
        /\ confirmInput' = <<inp>>
        /\ IF confirm_publish(inp)
           THEN /\ pc' = "Finalize CHANGELOG"
                /\ UNCHANGED exitCode
           ELSE /\ exitCode' = <<USER_CANCELLED>>
                /\ pc' = "done"
    /\ UNCHANGED <<args, results, version, cmds, reports, worldVars, askVars,
                   remoteSync, workingTree, observed>>
    /\ UNCHANGED priorRuns

StepFinalizeChangelog ==
    /\ pc = "Finalize CHANGELOG"
    /\ \E readOk \in BOOLEAN, writeOk \in BOOLEAN :
        LET f == finalize_changelog(version, readOk, writeOk)
        IN  /\ PublishStep("Finalize CHANGELOG", f.ok, "Package")
            /\ changelog' = f.content
            /\ cmds' = cmds \o By("Finalize CHANGELOG", f.ran)
    /\ UNCHANGED <<args, version, confirmInput, reports, pkgVersion, pkgFields,
                   tags,
                   remoteTags, localCommit, remoteCommit, askVars,
                   remoteSync, workingTree, observed>>
    /\ UNCHANGED priorRuns

StepPackage ==
    /\ pc = "Package"
    /\ \E rcOk \in BOOLEAN, vsixFound \in BOOLEAN :
        PublishStep("Package", step_package(rcOk, vsixFound) # NoVsix,
                    "Git commit & push")
    /\ UNCHANGED <<args, version, confirmInput, cmds, reports, worldVars,
                   askVars, remoteSync, workingTree, observed>>
    /\ UNCHANGED priorRuns

StepGitCommitPush ==
    /\ pc = "Git commit & push"
    /\ \E hasChanges \in BOOLEAN, commitOk \in BOOLEAN, pushOk \in BOOLEAN :
        LET g == git_commit_and_push(hasChanges, commitOk, pushOk)
        IN  /\ PublishStep("Git commit & push", g.ok, "Git tag")
            /\ cmds' = cmds \o By("Git commit & push", g.ran)
            /\ localCommit' = (localCommit \/ Succeeded(g.ran, "git commit"))
            /\ remoteCommit' =
                   (remoteCommit \/ Succeeded(g.ran, "git push origin branch"))
    /\ UNCHANGED <<args, version, confirmInput, reports, pkgVersion, pkgFields,
                   changelog,
                   tags, remoteTags, askVars, remoteSync, workingTree, observed>>
    /\ UNCHANGED priorRuns

\* `git tag -a` cannot succeed when the tag exists.
StepGitTag ==
    /\ pc = "Git tag"
    /\ \E tagOk \in IF version \in tags THEN {FALSE} ELSE BOOLEAN,
          pushOk \in BOOLEAN :
        LET t == create_git_tag(tagOk, pushOk)
        IN  /\ PublishStep("Git tag", t.ok, "Marketplace publish")
            /\ cmds' = cmds \o By("Git tag", t.ran)
            /\ tags' = IF Succeeded(t.ran, "git tag -a")
                       THEN tags \cup {version} ELSE tags
            /\ remoteTags' = IF Succeeded(t.ran, "git push origin tag")
                             THEN remoteTags \cup {version} ELSE remoteTags
    /\ UNCHANGED <<args, version, confirmInput, reports, pkgVersion, pkgFields,
                   changelog,
                   localCommit, remoteCommit, askVars, remoteSync, workingTree, observed>>
    /\ UNCHANGED priorRuns

StepMarketplacePublish ==
    /\ pc = "Marketplace publish"
    /\ \E rcOk \in BOOLEAN :
        LET m == publish_marketplace(rcOk)
        IN  /\ PublishStep("Marketplace publish", m.ok, "GitHub release")
            /\ cmds' = cmds \o By("Marketplace publish", m.ran)
    /\ UNCHANGED <<args, version, confirmInput, reports, worldVars, askVars,
                   remoteSync, workingTree, observed>>
    /\ UNCHANGED priorRuns

\* Mutant of StepGitHubRelease: a failed release fails the run like any
\* other publish step.
StepGitHubReleaseFatal ==
    /\ pc = "GitHub release"
    /\ \E rcOk \in BOOLEAN :
        LET g == create_github_release(rcOk)
        IN  /\ results' = run_step("GitHub release", g.ok)
            /\ cmds' = cmds \o By("GitHub release", g.ran)
            /\ IF g.ok
               THEN /\ reports' = _finish_with_report(results')
                    /\ exitCode' = <<SUCCESS>>
               ELSE /\ reports' = reports
                    /\ exitCode' = <<_exit_code_from_results(results')>>
    /\ pc' = "done"
    /\ UNCHANGED <<args, version, confirmInput, worldVars, askVars,
                   remoteSync, workingTree, observed>>
    /\ UNCHANGED priorRuns

\* Step 16 and the end of _run_publish: a failed release is only warned
\* about; the report is saved and main() returns SUCCESS.
StepGitHubRelease ==
    /\ pc = "GitHub release"
    /\ \E rcOk \in BOOLEAN :
        LET g == create_github_release(rcOk)
        IN  /\ results' = run_step("GitHub release", g.ok)
            /\ cmds' = cmds \o By("GitHub release", g.ran)
    /\ reports' = _finish_with_report(results')
    /\ exitCode' = <<SUCCESS>>
    /\ pc' = "done"
    /\ UNCHANGED <<args, version, confirmInput, worldVars, askVars,
                   remoteSync, workingTree, observed>>
    /\ UNCHANGED priorRuns

Next ==
    \/ StepNodeJs
    \/ StepNpm
    \/ StepGit
    \/ StepVSCodeCLI
    \/ StepGitHubCLI
    \/ StepVscePAT
    \/ StepGlobalNpmPkgs
    \/ StepVSCodeExtensions
    \/ StepWorkingTree
    \/ StepRemoteSync
    \/ StepDependencies
    \/ StepCompile
    \/ StepTests
    \/ StepFileLineLimits
    \/ StepVersionValidation
    \/ FinishAnalyzeOnly
    \/ PublishConfirmation
    \/ StepFinalizeChangelog
    \/ StepPackage
    \/ StepGitCommitPush
    \/ StepGitTag
    \/ StepMarketplacePublish
    \/ StepGitHubRelease

Spec == Init /\ [][Next]_vars

(***************************************************************************)
(* The Exit Code Resolver on its own: every run log of up to MaxLogLen     *)
(* entries over LogNames is handed to _exit_code_from_results.             *)
(***************************************************************************)
LogNames ==
    {"Node.js", "Working tree", "Git commit & push", "Git tag", "GitHub release"}

Logs ==
    UNION {[1..n -> [name : LogNames, passed : BOOLEAN]] : n \in 0..MaxLogLen}

InitIdle ==
    /\ args = [analyze_only |-> FALSE, skip_tests |-> FALSE,
               skip_extensions |-> FALSE, skip_global_npm |-> FALSE,
               auto_install |-> FALSE]
    /\ version = NoVersion
    /\ confirmInput = <<>>
    /\ cmds = <<>>
    /\ reports = <<>>
    /\ pkgVersion = NoVersion
    /\ pkgFields = PackageFields
    /\ changelog = <<>>
    /\ tags = {}
    /\ remoteTags = {}
    /\ localCommit = FALSE
    /\ remoteCommit = FALSE
    /\ priorRuns = <<>>

InitResolver ==
    /\ InitIdle
    /\ remoteSync = <<>>
    /\ workingTree = <<>>
    /\ observed = <<>>
    /\ pc = "resolve"
    /\ results \in Logs
    /\ exitCode = <<>>
    /\ askInput = Eof
    /\ askDefault = FALSE
    /\ askResult = <<>>

Resolve ==
    /\ pc = "resolve"
    /\ exitCode' = <<_exit_code_from_results(results)>>
    /\ pc' = "resolved"
    /\ UNCHANGED <<args, results, version, confirmInput, cmds, reports,
                   worldVars, askVars, remoteSync, workingTree, observed>>
    /\ UNCHANGED priorRuns

NextResolver == Resolve

SpecResolver == InitResolver /\ [][NextResolver]_vars

(***************************************************************************)
(* ask_yn and confirm_publish on their own: every input of up to           *)
(* MaxAnswerLen characters, end-of-input and the interrupt.                *)
(***************************************************************************)
InitAsk ==
    /\ InitIdle
    /\ remoteSync = <<>>
    /\ workingTree = <<>>
    /\ observed = <<>>
    /\ pc = "ask"
    /\ results = <<>>
    /\ exitCode = <<>>
    /\ askInput \in Inputs
    /\ askDefault \in BOOLEAN
    /\ askResult = <<>>

CallAskYn ==
    /\ pc = "ask"
    /\ askResult' = <<ask_yn(askInput, askDefault)>>
    /\ pc' = "asked"
    /\ UNCHANGED <<args, results, exitCode, version, confirmInput, cmds,
                   reports, worldVars, askInput, askDefault,
                   remoteSync, workingTree, observed>>
    /\ UNCHANGED priorRuns

CallConfirmPublish ==
    /\ pc = "ask"
    /\ askResult' = <<confirm_publish(askInput)>>
    /\ pc' = "confirm_asked"
    /\ UNCHANGED <<args, results, exitCode, version, confirmInput, cmds,
                   reports, worldVars, askInput, askDefault,
                   remoteSync, workingTree, observed>>
    /\ UNCHANGED priorRuns

NextAsk == CallAskYn \/ CallConfirmPublish

SpecAsk == InitAsk /\ [][NextAsk]_vars

(***************************************************************************)
(* The Remote sync step on its own: a publish run whose steps before it    *)
(* passed reaches the step, and the git commands of check_remote_sync      *)
(* answer in every combination.                                            *)
(***************************************************************************)
InitSync ==
    /\ InitIdle
    /\ pc = "Remote sync"
    /\ results = <<Entry("Node.js", TRUE), Entry("npm", TRUE),
                   Entry("git", TRUE), Entry("VS Code CLI", TRUE),
                   Entry("GitHub CLI", TRUE), Entry("vsce PAT", TRUE),
                   Entry("Global npm pkgs", TRUE),
                   Entry("VS Code extensions", TRUE),
                   Entry("Working tree", TRUE)>>
    /\ exitCode = <<>>
    /\ remoteSync = <<>>
    /\ workingTree = <<>>
    /\ observed = <<GhCliCall(TRUE, "ok")>>
    /\ askInput = Eof
    /\ askDefault = FALSE
    /\ askResult = <<>>

AllRemoteSyncOutcomes == {SyncCall(g) : g \in SyncInputs}

StepRemoteSyncAnyAnswers == RemoteSyncStep(AllRemoteSyncOutcomes)

NextSync == StepRemoteSyncAnyAnswers

SpecSync == InitSync /\ [][NextSync]_vars

(***************************************************************************)
(* The Working tree step on its own: a publish run whose steps before it   *)
(* passed reaches the step; git status and the operator answer in every    *)
(* combination.                                                            *)
(***************************************************************************)
InitTree ==
    /\ InitIdle
    /\ pc = "Working tree"
    /\ results = <<Entry("Node.js", TRUE), Entry("npm", TRUE),
                   Entry("git", TRUE), Entry("VS Code CLI", TRUE),
                   Entry("GitHub CLI", TRUE), Entry("vsce PAT", TRUE),
                   Entry("Global npm pkgs", TRUE),
                   Entry("VS Code extensions", TRUE)>>
    /\ exitCode = <<>>
    /\ remoteSync = <<>>
    /\ workingTree = <<>>
    /\ observed = <<GhCliCall(TRUE, "ok")>>
    /\ askInput = Eof
    /\ askDefault = FALSE
    /\ askResult = <<>>

StepWorkingTreeAnyAnswers ==
    /\ pc = "Working tree"
    /\ \E statusOk \in BOOLEAN, dirty \in BOOLEAN, inp \in Inputs :
        LET passed == check_working_tree(statusOk, dirty, inp)
        IN  /\ AnalysisStep("Working tree", passed, "Remote sync")
            /\ version' = IF passed THEN version ELSE NoVersion
            /\ workingTree' =
                   <<[statusOk |-> statusOk, dirty |-> dirty, input |-> inp]>>
    /\ UNCHANGED <<args, confirmInput, cmds, worldVars, askVars, remoteSync,
                   observed>>
    /\ UNCHANGED priorRuns

NextTree == StepWorkingTreeAnyAnswers

SpecTree == InitTree /\ [][NextTree]_vars

(***************************************************************************)
(* The Node.js step on its own, over everything `node --version` may       *)
(* answer: check_node takes int() of the first component of the output,    *)
(* which raises ValueError when that is not a number.                      *)
(***************************************************************************)
\* A call of check_node: `rcOk`: exit status 0; `numeric`: the output starts
\* with a number; `major`: that number.  Returns whether the call raised and,
\* if not, the value returned.
CheckNodeCall(rcOk, numeric, major) ==
    [input |-> [rcOk |-> rcOk, numeric |-> numeric, major |-> major],
     raised |-> rcOk /\ ~numeric,
     passed |-> numeric /\ check_node(rcOk, major)]

\* Mutant of Raise: run_step catches the exception and records the step as
\* failed.
RaiseRecorded(name) == AnalysisStep(name, FALSE, "done")

\* fn() raises inside run_step: nothing is appended, and neither run_step,
\* the orchestrators nor main() catch the exception, so main() does not
\* return.
Raise(name) ==
    /\ pc' = "raised"
    /\ UNCHANGED <<results, exitCode, reports>>

StepNodeJsAnyOutput ==
    /\ pc = "Node.js"
    /\ \E rcOk \in BOOLEAN, numeric \in BOOLEAN, major \in NodeMajors :
        LET c == CheckNodeCall(rcOk, numeric, major)
        IN  /\ IF c.raised THEN Raise("Node.js")
               ELSE AnalysisStep("Node.js", c.passed, "npm")
            /\ version' = IF c.raised \/ c.passed THEN version ELSE NoVersion
            /\ observed' = <<c>>
    /\ UNCHANGED <<args, confirmInput, cmds, worldVars, askVars, remoteSync,
                   workingTree>>
    /\ UNCHANGED priorRuns

NextNode == StepNodeJsAnyOutput

SpecNode == Init /\ [][NextNode]_vars

(***************************************************************************)
(* modules/checks_project.py: the version reconciler with the bump loop.   *)
(* Here CHANGELOG.md carries a "## [Unreleased]" header, and the manifest  *)
(* version may be a string that is not X.Y.Z.                              *)
(***************************************************************************)
\* A "version" string of package.json that is not of the form X.Y.Z.
Malformed == -1

ManifestVersions == Versions \cup {NoVersion, Malformed}

\* The header "## [Unreleased]".
Unreleased == [version |-> NoVersion, current |-> FALSE]

\* The header "## [v] - <today>" that replaces it.
Dated(v) == [version |-> v, current |-> FALSE]

\* `readOk`: CHANGELOG.md can be opened.
has_unreleased_section(readOk) ==
    readOk /\ \E i \in 1..Len(changelog) : changelog[i] = Unreleased

\* `git tag -l v<v>` prints the tag if it exists; only the output is looked
\* at, so a query that fails (`queryOk` false: no output) reads as "not
\* tagged".
_is_version_tagged(v, queryOk) == queryOk /\ v \in tags

\* Mutant of _bump_patch: the patch component is not incremented.
_bump_patch_same(v) == v

\* The next patch version of a well-formed version; on a malformed one the
\* function raises ValueError (see _ensure_untagged_version).
_bump_patch(v) == v + 1

\* Returns [ok, ran, data]: the result, the write of package.json attempted
\* and the manifest afterwards.
_write_package_version(v, writeOk) ==
    [ok |-> writeOk, ran |-> <<Cmd("write package.json", writeOk)>>,
     data |-> IF writeOk THEN [Manifest EXCEPT !.version = v] ELSE Manifest]

\* re.subn of "## [Unreleased]" by "## [v] - <today>": the new content.
StampedUnreleased(cl, v) ==
    [i \in 1..Len(cl) |-> IF cl[i] = Unreleased THEN Dated(v) ELSE cl[i]]

\* Returns [ok, ran, content]: the result, the write attempted and
\* CHANGELOG.md afterwards.
_stamp_changelog(v, readOk, writeOk) ==
    IF ~readOk THEN [ok |-> FALSE, ran |-> <<>>, content |-> changelog]
    ELSE IF \A i \in 1..Len(changelog) : changelog[i] # Unreleased
    THEN [ok |-> FALSE, ran |-> <<>>, content |-> changelog]
    ELSE [ok |-> writeOk,
          ran |-> <<Cmd("write CHANGELOG.md", writeOk)>>,
          content |-> IF writeOk THEN StampedUnreleased(changelog, v)
                      ELSE changelog]

\* Mutant of _ensure_untagged_version: a declined bump still writes the
\* offered version into package.json.
_ensure_untagged_version_write_on_decline(v, queryOk, inp, writeOk) ==
    LET next_ver == _bump_patch(v)
        written == _write_package_version(next_ver, TRUE)
    IN  IF _is_version_tagged(v, queryOk) /\ v # Malformed
        THEN IF ~ask_yn(inp, TRUE)
             THEN [at |-> "return", version |-> v, ok |-> FALSE,
                   asked |-> <<next_ver>>, ran |-> written.ran,
                   data |-> written.data]
             ELSE [at |-> "while", version |-> next_ver, ok |-> TRUE,
                   asked |-> <<next_ver>>, ran |-> <<>>, data |-> Manifest]
        ELSE [at |-> "return", version |-> v, ok |-> TRUE,
              asked |-> <<>>, ran |-> <<>>, data |-> Manifest]

\* One pass of _ensure_untagged_version from the test of its while loop,
\* with `v` the loop's `version`; `original` is the manifest version, which
\* nothing changes before the loop ends.  Returns where control goes (`at`:
\* back to the "while", a "return", or "raise": _bump_patch raises
\* ValueError on a malformed version), the loop's version or the version
\* returned, the flag returned, the candidate offered to the operator, the
\* write attempted and package.json afterwards.
_ensure_untagged_version(v, queryOk, inp, writeOk) ==
    LET original == read_package_version
        next_ver == _bump_patch(v)
        written == _write_package_version(v, writeOk)
    IN  IF _is_version_tagged(v, queryOk)
        THEN IF v = Malformed
             THEN [at |-> "raise", version |-> v, ok |-> FALSE,
                   asked |-> <<>>, ran |-> <<>>, data |-> Manifest]
             ELSE IF ~ask_yn(inp, TRUE)
             THEN [at |-> "return", version |-> v, ok |-> FALSE,
                   asked |-> <<next_ver>>, ran |-> <<>>, data |-> Manifest]
             ELSE [at |-> "while", version |-> next_ver, ok |-> TRUE,
                   asked |-> <<next_ver>>, ran |-> <<>>, data |-> Manifest]
        ELSE IF v # original
        THEN [at |-> "return", version |-> v, ok |-> written.ok,
              asked |-> <<>>, ran |-> written.ran, data |-> written.data]
        ELSE [at |-> "return", version |-> v, ok |-> TRUE,
              asked |-> <<>>, ran |-> <<>>, data |-> Manifest]

\* validate_version_changelog of modules/checks_project.py from the return
\* of _ensure_untagged_version, `e`: the changelog is stamped when the
\* version is untagged.  Returns [version, ok, ran, content].
checks_project_validate_version_changelog(e, readOk, writeOk) ==
    LET stamped == _stamp_changelog(e.version, readOk, writeOk)
    IN  IF ~e.ok
        THEN [version |-> e.version, ok |-> FALSE, ran |-> e.ran,
              content |-> changelog]
        ELSE [version |-> e.version, ok |-> stamped.ok,
              ran |-> e.ran \o stamped.ran, content |-> stamped.content]

\* What `observed` holds of the reconciler: the call with the manifest
\* version read, each bump prompt with the candidate offered and the
\* operator's input, the pair returned, the exception raised.
Event(event, v, inp, ok) ==
    [event |-> event, version |-> v, input |-> inp, ok |-> ok]

Called(v) == Event("call", v, Eof, TRUE)
Asked(v, inp) == Event("ask", v, inp, ask_yn(inp, TRUE))
Returned(v, ok) == Event("return", v, Eof, ok)
Raised(v) == Event("raise", v, Eof, FALSE)

\* The answers the bump prompt is exercised with.
BumpAnswers == {Eof, Typed(<<>>), Typed(<<"Y">>), Typed(<<"n">>)}

\* How many times the validation may be run in a row.
MaxRuns == 2

ReconcilerChangelogs ==
    {<<>>, <<Unreleased>>, <<Dated(1)>>, <<Unreleased, Dated(1)>>}

\* The validation is about to run in a project whose manifest, changelog
\* and tags are any of the above.
InitReconciler ==
    /\ args = [analyze_only |-> TRUE, skip_tests |-> FALSE,
               skip_extensions |-> FALSE, skip_global_npm |-> FALSE,
               auto_install |-> FALSE]
    /\ pc = "validate_version_changelog"
    /\ results = <<>>
    /\ exitCode = <<>>
    /\ pkgVersion \in ManifestVersions
    /\ pkgFields = PackageFields
    /\ version = pkgVersion
    /\ confirmInput = <<>>
    /\ cmds = <<>>
    /\ reports = <<>>
    /\ changelog \in ReconcilerChangelogs
    /\ tags \in SUBSET (Versions \cup {Malformed})
    /\ remoteTags = tags
    /\ localCommit = FALSE
    /\ remoteCommit = FALSE
    /\ remoteSync = <<>>
    /\ workingTree = <<>>
    /\ observed = <<>>
    /\ askInput = Eof
    /\ askDefault = FALSE
    /\ askResult = <<>>
    /\ priorRuns = <<>>

\* The validation returns (v, ok) to the pipeline, which records the step.
ReconcilerReturn(v, ok, events) ==
    /\ AnalysisStep("Version validation", ok, "validated")
    /\ version' = v
    /\ observed' = observed \o events \o <<Returned(v, ok)>>

\* validate_version_changelog up to the call of _ensure_untagged_version.
CallValidateVersionChangelog ==
    /\ pc = "validate_version_changelog"
    /\ \E readOk \in BOOLEAN :
        LET pkg_version == read_package_version
        IN  IF pkg_version = NoVersion \/ ~has_unreleased_section(readOk)
            THEN ReconcilerReturn(pkg_version, FALSE, <<Called(pkg_version)>>)
            ELSE /\ pc' = "while _is_version_tagged"
                 /\ version' = pkg_version
                 /\ observed' = Append(observed, Called(pkg_version))
                 /\ UNCHANGED <<results, exitCode, reports>>
    /\ UNCHANGED <<args, confirmInput, cmds, worldVars, askVars, remoteSync,
                   workingTree>>
    /\ UNCHANGED priorRuns

\* One pass of the bump loop; when the loop ends, the rest of
\* _ensure_untagged_version and of validate_version_changelog.
BumpLoop ==
    /\ pc = "while _is_version_tagged"
    /\ \E queryOk \in BOOLEAN, inp \in BumpAnswers, writeOk \in BOOLEAN,
          readOk \in BOOLEAN, stampOk \in BOOLEAN :
        LET e == _ensure_untagged_version(version, queryOk, inp, writeOk)
            r == checks_project_validate_version_changelog(e, readOk, stampOk)
            asked == [i \in 1..Len(e.asked) |-> Asked(e.asked[i], inp)]
        IN  CASE e.at = "raise" ->
                    /\ pc' = "raised"
                    /\ observed' = Append(observed, Raised(e.version))
                    /\ UNCHANGED <<results, exitCode, reports, version, cmds,
                                   pkgVersion, pkgFields, changelog>>
              [] e.at = "while" ->
                    /\ version' = e.version
                    /\ observed' = observed \o asked
                    /\ UNCHANGED <<pc, results, exitCode, reports, cmds,
                                   pkgVersion, pkgFields, changelog>>
              [] e.at = "return" ->
                    /\ ReconcilerReturn(r.version, r.ok, asked)
                    /\ cmds' = cmds \o By("Version validation", r.ran)
                    /\ pkgVersion' = e.data.version
                    /\ pkgFields' = e.data.fields
                    /\ changelog' = r.content
    /\ UNCHANGED <<args, confirmInput, tags, remoteTags, localCommit,
                   remoteCommit, askVars, remoteSync, workingTree>>
    /\ UNCHANGED priorRuns

\* What the runs so far returned.
Returns == SelectSeq(observed, LAMBDA e : e.event = "return")

\* The pipeline is started again in the project as the last run left it;
\* of the runs before, `observed` keeps what each returned.
RunAgain ==
    /\ pc \in {"validated", "done"}
    /\ Len(Returns) < MaxRuns
    /\ pc' = "validate_version_changelog"
    /\ results' = <<>>
    /\ exitCode' = <<>>
    /\ reports' = <<>>
    /\ cmds' = <<>>
    /\ version' = pkgVersion
    /\ observed' = Returns
    /\ UNCHANGED <<args, confirmInput, worldVars, askVars, remoteSync,
                   workingTree>>
    /\ UNCHANGED priorRuns

NextReconciler == CallValidateVersionChangelog \/ BumpLoop \/ RunAgain

SpecReconciler == InitReconciler /\ [][NextReconciler]_vars

(***************************************************************************)
(* remove_extension.py: main() runs a pre-flight check and five removal    *)
(* steps.  `pc` is the function about to run, `cmds` the uninstall and the *)
(* deletions attempted, `observed` the prompts asked with their answers.   *)
(***************************************************************************)
\* The answers the prompts of the script are exercised with.
RemovalAnswers == {Eof, Interrupt, Typed(<<>>), Typed(<<"Y">>), Typed(<<"n">>)}

\* ask_yn(question) as the script calls it: the default of
\* modules/display.py's ask_yn is True.
Prompt(step, inp) == [step |-> step, input |-> inp, ok |-> ask_yn(inp, TRUE)]

InitRemove ==
    /\ InitIdle
    /\ pc = "_check_vscode_running"
    /\ results = <<>>
    /\ exitCode = <<>>
    /\ remoteSync = <<>>
    /\ workingTree = <<>>
    /\ observed = <<>>
    /\ askInput = Eof
    /\ askDefault = FALSE
    /\ askResult = <<>>

removeFrame ==
    <<args, results, version, confirmInput, reports, worldVars, askVars,
      remoteSync, workingTree>>

\* Pre-flight: when VS Code runs the operator is asked whether to go on; a
\* "no" ends the script with sys.exit(0).
CheckVSCodeRunning ==
    /\ pc = "_check_vscode_running"
    /\ \E running \in BOOLEAN, inp \in RemovalAnswers :
        LET p == Prompt("_check_vscode_running", inp)
        IN  IF running
            THEN /\ observed' = Append(observed, p)
                 /\ pc' = IF p.ok THEN "_step_uninstall_cli" ELSE "done"
                 /\ exitCode' = IF p.ok THEN exitCode ELSE <<SUCCESS>>
            ELSE /\ pc' = "_step_uninstall_cli"
                 /\ UNCHANGED <<observed, exitCode>>
    /\ UNCHANGED <<cmds, removeFrame>>
    /\ UNCHANGED priorRuns

\* A removal step: when there is something to remove (`found`), the operator
\* is asked, and on ask_yn's True the removal `cmd` is attempted (`ok`: it
\* succeeds); the script goes on to `next` whatever happened.  After the
\* last step main() returns 0.
RemovalStep(step, next, cmd, found, inp, ok) ==
    /\ pc = step
    /\ pc' = next
    /\ exitCode' = IF next = "done" THEN <<SUCCESS>> ELSE exitCode
    /\ IF found
       THEN /\ observed' = Append(observed, Prompt(step, inp))
            /\ cmds' = IF ask_yn(inp, TRUE)
                       THEN Append(cmds, [step |-> step, cmd |-> cmd, ok |-> ok])
                       ELSE cmds
       ELSE UNCHANGED <<observed, cmds>>
    /\ UNCHANGED removeFrame

StepUninstallCli ==
    /\ pc = "_step_uninstall_cli"
    /\ \E inp \in RemovalAnswers, ok \in BOOLEAN :
            RemovalStep("_step_uninstall_cli", "_step_remove_extension_files",
                        "code --uninstall-extension", TRUE, inp, ok)
    /\ UNCHANGED priorRuns

StepRemoveExtensionFiles ==
    /\ pc = "_step_remove_extension_files"
    /\ \E found \in BOOLEAN, inp \in RemovalAnswers, ok \in BOOLEAN :
            RemovalStep("_step_remove_extension_files",
                        "_step_remove_global_storage",
                        "delete extension folders", found, inp, ok)
    /\ UNCHANGED priorRuns

StepRemoveGlobalStorage ==
    /\ pc = "_step_remove_global_storage"
    /\ \E found \in BOOLEAN, inp \in RemovalAnswers, ok \in BOOLEAN :
            RemovalStep("_step_remove_global_storage",
                        "_step_clear_workspace_state",
                        "delete global storage", found, inp, ok)
    /\ UNCHANGED priorRuns

StepClearWorkspaceState ==
    /\ pc = "_step_clear_workspace_state"
    /\ \E found \in BOOLEAN, inp \in RemovalAnswers, ok \in BOOLEAN :
            RemovalStep("_step_clear_workspace_state",
                        "_step_clear_ext_dev_state",
                        "delete workspace state folders", found, inp, ok)
    /\ UNCHANGED priorRuns

StepClearExtDevState ==
    /\ pc = "_step_clear_ext_dev_state"
    /\ \E found \in BOOLEAN, inp \in RemovalAnswers, ok \in BOOLEAN :
            RemovalStep("_step_clear_ext_dev_state", "done",
                        "delete ext-dev state", found, inp, ok)
    /\ UNCHANGED priorRuns

NextRemove ==
    \/ CheckVSCodeRunning
    \/ StepUninstallCli
    \/ StepRemoveExtensionFiles
    \/ StepRemoveGlobalStorage
    \/ StepClearWorkspaceState
    \/ StepClearExtDevState

SpecRemove == InitRemove /\ [][NextRemove]_vars

(***************************************************************************)
(* build_and_install.py: main() runs dependencies, compile, package and    *)
(* install.  `args` holds the script's own flags, `cmds` the commands run, *)
(* `observed` the questions asked with their answers; any failed step      *)
(* returns 1.                                                              *)
(***************************************************************************)
BUILD_FAILED == 1

BuildFlags ==
    [skip_compile : BOOLEAN, auto_install : BOOLEAN, no_logo : BOOLEAN]

InitBuild ==
    /\ args \in BuildFlags
    /\ version = NoVersion
    /\ confirmInput = <<>>
    /\ cmds = <<>>
    /\ reports = <<>>
    /\ pkgVersion = NoVersion
    /\ pkgFields = PackageFields
    /\ changelog = <<>>
    /\ tags = {}
    /\ remoteTags = {}
    /\ localCommit = FALSE
    /\ remoteCommit = FALSE
    /\ pc = "Dependencies"
    /\ results = <<>>
    /\ exitCode = <<>>
    /\ remoteSync = <<>>
    /\ workingTree = <<>>
    /\ observed = <<>>
    /\ askInput = Eof
    /\ askDefault = FALSE
    /\ askResult = <<>>
    /\ priorRuns = <<>>

buildFrame ==
    <<args, results, version, confirmInput, reports, worldVars, askVars,
      remoteSync, workingTree>>

\* A build step that ran `cmd` (`ran`) with outcome `ok`; main() returns 1
\* at once when it failed.
BuildStep(step, next, cmd, ran, ok) ==
    /\ cmds' = IF ran THEN Append(cmds, [step |-> step, cmd |-> cmd, ok |-> ok])
               ELSE cmds
    /\ pc' = IF ran /\ ~ok THEN "done" ELSE next
    /\ exitCode' = IF ran /\ ~ok THEN <<BUILD_FAILED>> ELSE exitCode

\* step_dependencies: `npm install` unless node_modules is there already.
BuildDependencies ==
    /\ pc = "Dependencies"
    /\ \E present, ok \in BOOLEAN :
        BuildStep("Dependencies", "Compile", "npm install", ~present, ok)
    /\ UNCHANGED <<observed, buildFrame>>
    /\ UNCHANGED priorRuns

\* --skip-compile skips without asking; otherwise ask_yn("Run compile step?").
BuildCompile ==
    /\ pc = "Compile"
    /\ \E inp \in RemovalAnswers, ok \in BOOLEAN :
        LET p == Prompt("Compile", inp)
            skip_compile == args.skip_compile \/ ~p.ok
        IN  /\ observed' = IF args.skip_compile THEN observed
                           ELSE Append(observed, p)
            /\ BuildStep("Compile", "Package", "npm run compile",
                         ~skip_compile, ok)
    /\ UNCHANGED buildFrame
    /\ UNCHANGED priorRuns

\* step_package: None when vsce fails or leaves no .vsix.
BuildPackage ==
    /\ pc = "Package"
    /\ \E ok \in BOOLEAN :
        BuildStep("Package", "Install", "vsce package", TRUE, ok)
    /\ UNCHANGED <<observed, buildFrame>>
    /\ UNCHANGED priorRuns

\* prompt_auto_install(vsix_path): without the `code` CLI nothing is asked;
\* otherwise "Install via CLI? [y/N]" is read with input() and only "y" or
\* "yes" runs `code --install-extension`.
prompt_auto_install(codeOnPath, inp, ok) ==
    LET yes == /\ inp.kind = "text"
               /\ lower(strip(inp.text)) \in {<<"y">>, <<"y", "e", "s">>}
    IN  [asked |-> codeOnPath,
         ran |-> codeOnPath /\ yes,
         returned |-> codeOnPath /\ yes /\ ok]

\* The install section of main(): --auto-install prints a heading, and
\* prompt_auto_install is called with or without the flag; main() returns 0.
BuildInstall ==
    /\ pc = "Install"
    /\ \E codeOnPath \in BOOLEAN, inp \in RemovalAnswers, ok \in BOOLEAN :
        LET r == prompt_auto_install(codeOnPath, inp, ok)
        IN  /\ observed' =
                IF r.asked
                THEN Append(observed,
                            [step |-> "Install", input |-> inp, ok |-> r.ran])
                ELSE observed
            /\ cmds' =
                IF r.ran
                THEN Append(cmds, [step |-> "Install",
                                   cmd |-> "code --install-extension",
                                   ok |-> ok])
                ELSE cmds
    /\ pc' = "done"
    /\ exitCode' = <<SUCCESS>>
    /\ UNCHANGED buildFrame
    /\ UNCHANGED priorRuns

NextBuild ==
    \/ BuildDependencies
    \/ BuildCompile
    \/ BuildPackage
    \/ BuildInstall

SpecBuild == InitBuild /\ [][NextBuild]_vars

(***************************************************************************)
(* dev.py invoked again.  A publish run that stamped CHANGELOG.md and then *)
(* failed is followed by further invocations of main(), with any flags, on *)
(* the files, tags and commits the earlier runs left behind: nothing is    *)
(* repaired by hand in between.  The first run starts from a changelog     *)
(* with exactly one "- Current" header.                                    *)
(***************************************************************************)
SingleCurrent(cl) == Cardinality({i \in 1..Len(cl) : cl[i].current}) = 1

\* No release has been tagged yet.
InitRerun == Init /\ SingleCurrent(changelog) /\ tags = {}

\* The run that has ended stamped the changelog and failed at a later step.
FailedAfterFinalize ==
    /\ pc = "done"
    /\ exitCode # <<SUCCESS>>
    /\ \E i \in 1..Len(results) :
           results[i] = [name |-> "Finalize CHANGELOG", passed |-> TRUE]

\* main() is entered again, with any flags: a new run log, `version` read
\* from package.json, no report written yet by this run.  A publish run that
\* stamped the changelog and then failed is remembered by its last step and
\* its exit code.
Reinvoke ==
    /\ pc = "done"
    /\ FailedAfterFinalize \/ priorRuns # <<>>
    /\ FailedAfterFinalize => Len(priorRuns) < MaxRuns
    /\ priorRuns' = IF FailedAfterFinalize
                    THEN Append(priorRuns,
                                [failedAt |-> results[Len(results)].name,
                                 exitCode |-> exitCode[1]])
                    ELSE priorRuns
    /\ args' \in Flags
    /\ pc' = "Node.js"
    /\ results' = <<>>
    /\ exitCode' = <<>>
    /\ version' = pkgVersion
    /\ confirmInput' = <<>>
    /\ cmds' = <<>>
    /\ reports' = <<>>
    /\ remoteSync' = <<>>
    /\ workingTree' = <<>>
    /\ observed' = <<>>
    /\ UNCHANGED <<worldVars, askVars>>

NextRerun ==
    \/ StepNodeJs
    \/ StepNpm
    \/ StepGit
    \/ StepVSCodeCLI
    \/ StepGitHubCLI
    \/ StepVscePAT
    \/ StepGlobalNpmPkgs
    \/ StepVSCodeExtensions
    \/ StepWorkingTree
    \/ StepRemoteSync
    \/ StepDependencies
    \/ StepCompile
    \/ StepTests
    \/ StepFileLineLimits
    \/ StepVersionValidation
    \/ FinishAnalyzeOnly
    \/ PublishConfirmation
    \/ StepFinalizeChangelog
    \/ StepPackage
    \/ StepGitCommitPush
    \/ StepGitTag
    \/ StepMarketplacePublish
    \/ StepGitHubRelease
    \/ Reinvoke

SpecRerun == InitRerun /\ [][NextRerun]_vars

(***************************************************************************)
(* Properties                                                              *)
(***************************************************************************)
HasFailure(log) == \E i \in 1..Len(log) : ~log[i].passed

\* The index of the most recently appended failing entry.
LastFailure(log) ==
    CHOOSE i \in 1..Len(log) :
        ~log[i].passed /\ \A j \in (i + 1)..Len(log) : log[j].passed

\* C1: for a run log with at least one failed entry the resolver returns the
\* code the step table gives for the name of the last failed entry, whatever
\* entries precede or follow it.
C1_LastFailureDecides ==
    (pc = "resolved" /\ HasFailure(results)) =>
        exitCode = <<_STEP_EXIT_CODES[results[LastFailure(results)].name]>>

\* C1 witness: two failures with different codes, then a passing entry; the
\* later failure decided.
C1_Witness ==
    /\ pc = "resolved"
    /\ results = <<Entry("Working tree", FALSE), Entry("Git tag", FALSE),
                   Entry("Node.js", TRUE)>>
    /\ exitCode = <<GIT_FAILED>>

C3_EmptyLogIsFailure ==
    (pc = "resolved" /\ results = <<>>) =>
        (exitCode # <<SUCCESS>> /\ exitCode[1] \in PREREQUISITE_FAILED..USER_CANCELLED)

\* C3 witness: the empty log was resolved.
C3_Witness == pc = "resolved" /\ results = <<>> /\ exitCode # <<>>

\* The last entry of the run log is `e`.
LastEntryIs(e) == results # <<>> /\ results[Len(results)] = e

Recorded(e) == \E i \in 1..Len(results) : results[i] = e

\* `cmd` was attempted / ran successfully in this run.
Attempted(cmd) == \E k \in 1..Len(cmds) : cmds[k].cmd = cmd
Ran(cmd) == \E k \in 1..Len(cmds) : cmds[k].cmd = cmd /\ cmds[k].ok

\* C4: a failed entry is the last entry of the run log and main() has
\* returned; every command attempted belongs to a step recorded no later than
\* the failed one, so no step after the first failure was invoked.
C4_AbortOnFirstFailure ==
    \A i \in 1..Len(results) :
        ~results[i].passed =>
            /\ i = Len(results)
            /\ pc = "done"
            /\ \A k \in 1..Len(cmds) :
                   \E j \in 1..i : results[j].name = cmds[k].step

\* C4 witness: the run ended at a failed Git tag step, and neither the
\* marketplace upload nor the GitHub release was attempted.
C4_Witness ==
    /\ pc = "done"
    /\ LastEntryIs(Entry("Git tag", FALSE))
    /\ ~Attempted("vsce publish")
    /\ ~Attempted("gh release create")

AnalysisStepNames ==
    {"Node.js", "npm", "git", "VS Code CLI", "GitHub CLI", "vsce PAT",
     "Global npm pkgs", "VS Code extensions", "Working tree", "Remote sync",
     "Dependencies", "Compile", "Tests", "File line limits",
     "Version validation"}

PublishStepNames ==
    {"Finalize CHANGELOG", "Git commit & push", "Git tag",
     "Marketplace publish", "GitHub release"}

PublishCommands ==
    {"write CHANGELOG.md", "git commit", "git push origin branch",
     "git tag -a", "git push origin tag", "vsce publish", "gh release create"}

\* The sample answers that say yes.
YesInputs == {Typed(<<"y">>), Typed(<<" ", "Y", "E", "s">>)}

\* The step is skipped by a command-line flag.
SkippedByFlag(name) ==
    \/ name = "Global npm pkgs" /\ args.skip_global_npm
    \/ name = "VS Code extensions" /\ args.skip_extensions
    \/ name = "Tests" /\ args.skip_tests

PublishPhaseEntered ==
    \/ \E k \in 1..Len(cmds) : cmds[k].cmd \in PublishCommands
    \/ \E i \in 1..Len(results) : results[i].name \in PublishStepNames

\* C5: a publish-phase action has been attempted only if, in this run, every
\* analysis step that was not skipped by a flag was recorded as passed and
\* the operator answered yes at the publish confirmation.
C5_PublishOnlyAfterAnalysisAndYes ==
    PublishPhaseEntered =>
        /\ ~args.analyze_only
        /\ confirmInput # <<>>
        /\ confirmInput[1] \in YesInputs
        /\ \A n \in AnalysisStepNames :
               /\ ~Recorded(Entry(n, FALSE))
               /\ SkippedByFlag(n) \/ Recorded(Entry(n, TRUE))

\* C5 witness: the marketplace upload ran.
C5_Witness == Ran("vsce publish") /\ confirmInput = <<Typed(<<"y">>)>>

\* The text is "y" or "yes" in any case, between optional blanks.
YesSpellings ==
    {<<a>> : a \in {"y", "Y"}}
        \cup {<<a, b, c>> : a \in {"y", "Y"}, b \in {"e", "E"}, c \in {"s", "S"}}

SaysYes(inp) ==
    /\ inp.kind = "text"
    /\ \E i \in 1..Len(inp.text), j \in 1..Len(inp.text) :
           /\ i <= j
           /\ SubSeq(inp.text, i, j) \in YesSpellings
           /\ \A k \in 1..Len(inp.text) : (k < i \/ k > j) => inp.text[k] = " "

\* C6: confirm_publish returns true exactly when the operator typed "y" or
\* "yes" (trimmed, in any case); the empty answer, any other text,
\* end-of-input and the interrupt are a decline, returned as a value.
C6_ConfirmDefaultsToDecline ==
    pc = "confirm_asked" => askResult = <<SaysYes(askInput)>>

\* C6 witness: the prompt was interrupted and confirm_publish returned false.
C6_Witness ==
    pc = "confirm_asked" /\ askInput = Interrupt /\ askResult = <<FALSE>>

Declined == confirmInput # <<>> /\ confirmInput[1] \notin YesInputs

\* C7: main() returns USER_CANCELLED exactly in the runs where the operator
\* declined at the publish gate, and then the run log holds no failure from
\* which the code could have been derived.
C7_CancelledIffDeclined ==
    pc = "done" =>
        /\ Declined <=> exitCode = <<USER_CANCELLED>>
        /\ exitCode = <<USER_CANCELLED>> =>
               /\ ~HasFailure(results)
               /\ _exit_code_from_results(results) # USER_CANCELLED

\* C7 witness: the operator typed "n" and the run ended with code 14.
C7_Witness ==
    /\ pc = "done"
    /\ confirmInput = <<Typed(<<"n">>)>>
    /\ exitCode = <<USER_CANCELLED>>

\* C8: when the run ends with a failed GitHub release entry, the marketplace
\* upload had passed, the publish report holding the whole log was saved and
\* the exit code is SUCCESS.
C8_ReleaseFailureNonFatal ==
    (pc = "done" /\ LastEntryIs(Entry("GitHub release", FALSE))) =>
        /\ Recorded(Entry("Marketplace publish", TRUE))
        /\ exitCode = <<SUCCESS>>
        /\ reports # <<>>
        /\ reports[Len(reports)] = [kind |-> "publish", results |-> results]

\* C8 witness: a run that ended with a failed GitHub release and code 0.
C8_Witness ==
    /\ pc = "done"
    /\ LastEntryIs(Entry("GitHub release", FALSE))
    /\ Ran("vsce publish")
    /\ exitCode = <<SUCCESS>>

\* C9: every run that ends with a failure code has saved a report holding
\* the run log.
C9_ReportSavedOnFailure ==
    (pc = "done" /\ exitCode # <<SUCCESS>> /\ exitCode # <<USER_CANCELLED>>) =>
        /\ reports # <<>>
        /\ reports[Len(reports)].results = results

ForwardCommands ==
    PublishCommands
        \cup {"git pull --ff-only", "write package.json", "code --install-extension"}

\* C10: only forward commands are ever attempted, and the effect of every
\* publish command that succeeded is still in place; a run that ends at a
\* failed marketplace upload leaves the tag created and pushed and the
\* changelog stamped.
C10_NoRollback ==
    /\ \A k \in 1..Len(cmds) : cmds[k].cmd \in ForwardCommands
    /\ Ran("write CHANGELOG.md") => CurrentCount(changelog, version) = 0
    /\ Ran("git commit") => localCommit
    /\ Ran("git push origin branch") => remoteCommit
    /\ Ran("git tag -a") => version \in tags
    /\ Ran("git push origin tag") => version \in remoteTags
    /\ (pc = "done" /\ LastEntryIs(Entry("Marketplace publish", FALSE))) =>
           /\ exitCode = <<PUBLISH_FAILED>>
           /\ version \in tags
           /\ version \in remoteTags
           /\ CurrentCount(changelog, version) = 0
           /\ Ran("git commit") => remoteCommit

\* C10 witness: the upload failed after the release commit was pushed and
\* the tag created.
C10_Witness ==
    /\ pc = "done"
    /\ LastEntryIs(Entry("Marketplace publish", FALSE))
    /\ Ran("git push origin branch")
    /\ Ran("git push origin tag")

\* The steps of a publish run in the order main() runs them; "confirm" is
\* the publish confirmation, which records no entry.
CodeOrder ==
    <<"Node.js", "npm", "git", "VS Code CLI", "GitHub CLI", "vsce PAT",
      "Global npm pkgs", "VS Code extensions", "Working tree", "Remote sync",
      "Dependencies", "Compile", "Tests", "File line limits",
      "Version validation", "confirm", "Finalize CHANGELOG", "Package",
      "Git commit & push", "Git tag", "Marketplace publish", "GitHub release">>

\* The same steps in the order of the stage list: Package stands before the
\* confirmation and the changelog finalization.
StatedOrder ==
    <<"Node.js", "npm", "git", "VS Code CLI", "GitHub CLI", "vsce PAT",
      "Global npm pkgs", "VS Code extensions", "Working tree", "Remote sync",
      "Dependencies", "Compile", "Tests", "File line limits",
      "Version validation", "Package", "confirm", "Finalize CHANGELOG",
      "Git commit & push", "Git tag", "Marketplace publish", "GitHub release">>

Pos(order, n) == CHOOSE i \in 1..Len(order) : order[i] = n

\* One step of a publish run respects `order`: an entry is appended only for
\* a step that stands after every step already recorded, and after the
\* confirmation exactly when the operator has been asked; the operator is
\* asked only after every step recorded so far.
StepInOrder(order) ==
    /\ results' # results =>
           LET n == results'[Len(results')].name
           IN  /\ results' = Append(results, results'[Len(results')])
               /\ \A i \in 1..Len(results) :
                      Pos(order, results[i].name) < Pos(order, n)
               /\ (confirmInput # <<>>) <=> (Pos(order, "confirm") < Pos(order, n))
    /\ confirmInput' # confirmInput =>
           /\ results' = results
           /\ \A i \in 1..Len(results) :
                  Pos(order, results[i].name) < Pos(order, "confirm")

\* C11 (as amended): in a publish run the steps execute strictly in the
\* order Prerequisites, Environment Setup, Git State, Dependencies, Build,
\* Tests, Quality, Version, Confirmation, Changelog Finalization, Package,
\* Commit+Push, Tag, Upload, Release-Record: Package runs after the
\* confirmation and after the changelog finalization, Commit+Push before Tag.
C11_StagesInCodeOrder == [][~args.analyze_only => StepInOrder(CodeOrder)]_vars

\* C11 as stated: the same, with Package before the confirmation and before
\* the changelog finalization.
C11_StagesInStatedOrder ==
    [][~args.analyze_only => StepInOrder(StatedOrder)]_vars

\* C11 witness: a publish run with no step skipped ran to its end; the
\* changelog was finalized as the sixteenth step, the package built as the
\* seventeenth.
C11_Witness ==
    /\ pc = "done"
    /\ Len(results) = 21
    /\ confirmInput # <<>>
    /\ results[16] = Entry("Finalize CHANGELOG", TRUE)
    /\ results[17] = Entry("Package", TRUE)
    /\ results[21].name = "GitHub release"

SkippableSteps == {"Global npm pkgs", "VS Code extensions", "Tests"}

\* The run went past step `n`: a step that stands after it was recorded.
WentPast(n) ==
    \E i \in 1..Len(results) :
        Pos(CodeOrder, results[i].name) > Pos(CodeOrder, n)

\* C12: once a run has gone past a stage skipped by its flag, the run log
\* holds an entry for that stage (the entry that would carry the "skipped"
\* marker).
C12_SkippedStageRecorded ==
    \A n \in SkippableSteps :
        (SkippedByFlag(n) /\ WentPast(n)) =>
            \E i \in 1..Len(results) : results[i].name = n

\* The positions of main() inside the publish gate and the publish phase.
PublishPositions ==
    {"confirm", "Finalize CHANGELOG", "Package", "Git commit & push", "Git tag",
     "Marketplace publish", "GitHub release"}

\* C13: in an analyze-only run the publish confirmation is never asked, no
\* publish step is entered and no publish command attempted; once the
\* analysis has passed the run only packages (and may install locally), and
\* it ends with SUCCESS if the package was built, PACKAGE_FAILED if not.
C13_AnalyzeOnlyNeverPublishes ==
    args.analyze_only =>
        /\ confirmInput = <<>>
        /\ pc \notin PublishPositions
        /\ ~PublishPhaseEntered
        /\ \A k \in 1..Len(cmds) :
               cmds[k].cmd \in {"git pull --ff-only", "write package.json",
                                "code --install-extension"}
        /\ (pc = "done" /\ Recorded(Entry("Version validation", TRUE))) =>
               /\ results[Len(results)].name = "Package"
               /\ exitCode = IF results[Len(results)].passed
                             THEN <<SUCCESS>> ELSE <<PACKAGE_FAILED>>
        /\ Attempted("code --install-extension") => exitCode = <<SUCCESS>>

\* C13 witness: an analyze-only run packaged, installed the package locally
\* and ended with SUCCESS.
C13_Witness ==
    /\ args.analyze_only
    /\ pc = "done"
    /\ LastEntryIs(Entry("Package", TRUE))
    /\ Ran("code --install-extension")
    /\ exitCode = <<SUCCESS>>

\* What check_remote_sync was answered and what it returned, once it ran.
SyncIn == remoteSync[1].input
SyncOut == remoteSync[1].result

SyncRan(cmd) == \E k \in 1..Len(SyncOut.ran) : SyncOut.ran[k].cmd = cmd

\* The relation of local HEAD to the upstream HEAD, from the answers `g`.
Compared(g) ==
    g.fetchOk /\ g.upstreamOk /\ g.local \in Commits /\ g.base \in Commits

UpToDate(g) == g.fetchOk /\ g.upstreamOk /\ g.local = g.remote
Behind(g) == Compared(g) /\ g.local # g.remote /\ g.base = g.local
Ahead(g) == Compared(g) /\ g.local # g.remote /\ g.base = g.remote
Diverged(g) ==
    Compared(g) /\ g.local # g.remote /\ g.base # g.local /\ g.base # g.remote
NoUpstream(g) == g.fetchOk /\ ~g.upstreamOk

\* The run ended at a failed Remote sync step with REMOTE_SYNC_FAILED.
HaltedAtRemoteSync ==
    /\ pc = "done"
    /\ LastEntryIs(Entry("Remote sync", FALSE))
    /\ exitCode = <<REMOTE_SYNC_FAILED>>

\* C14: when local and upstream have diverged, check_remote_sync returns
\* false and the run halts with REMOTE_SYNC_FAILED.
C14_DivergedFails ==
    (remoteSync # <<>> /\ Diverged(SyncIn)) =>
        (~SyncOut.passed /\ HaltedAtRemoteSync)

\* The git commands check_remote_sync may run: none merges.
SyncCommands ==
    {"git fetch origin", "git rev-parse HEAD", "git rev-parse @{u}",
     "git merge-base HEAD @{u}", "git pull --ff-only"}

\* C15: check_remote_sync runs no history-changing command but
\* `git pull --ff-only`, and runs it only when the merge-base equals local
\* HEAD; when up to date, ahead, diverged or without an upstream it runs no
\* pull, and the pipeline records none.
C15_OnlyFastForwardWhenBehind ==
    remoteSync # <<>> =>
        /\ \A k \in 1..Len(SyncOut.ran) : SyncOut.ran[k].cmd \in SyncCommands
        /\ SyncOut.pulled <=> SyncRan("git pull --ff-only")
        /\ Attempted("git pull --ff-only") <=> SyncRan("git pull --ff-only")
        /\ SyncRan("git pull --ff-only") =>
               /\ SyncIn.fetchOk /\ SyncIn.upstreamOk
               /\ SyncIn.local # SyncIn.remote
               /\ SyncIn.base = SyncIn.local
        /\ (UpToDate(SyncIn) \/ Ahead(SyncIn) \/ Diverged(SyncIn)
               \/ NoUpstream(SyncIn)) => ~SyncRan("git pull --ff-only")

\* C15 witness: the histories had diverged and the step ran no pull.
C15_Witness ==
    /\ remoteSync # <<>>
    /\ Diverged(SyncIn)
    /\ SyncRan("git merge-base HEAD @{u}")
    /\ ~SyncRan("git pull --ff-only")
    /\ cmds = <<>>

C17_FetchFirst ==
    remoteSync # <<>> =>
        /\ SyncOut.ran # <<>>
        /\ SyncOut.ran[1] = Git("git fetch origin", SyncIn.fetchOk)
        /\ ~SyncIn.fetchOk =>
               /\ Len(SyncOut.ran) = 1
               /\ ~SyncOut.passed
               /\ ~Attempted("git pull --ff-only")
               /\ HaltedAtRemoteSync

\* C17 witness: the fetch failed although local was behind upstream, and
\* the run halted without a pull.
C17_Witness ==
    /\ remoteSync # <<>>
    /\ ~SyncIn.fetchOk
    /\ SyncIn.upstreamOk /\ SyncIn.local # SyncIn.remote
    /\ SyncIn.base = SyncIn.local
    /\ HaltedAtRemoteSync
    /\ cmds = <<>>

\* C18: the Working tree step passes exactly when git status succeeded and
\* the tree is clean or the operator typed "y" / "yes" at the prompt; an
\* empty answer, end-of-input or the interrupt on a dirty tree is a decline:
\* the step is recorded failed and the run ends with WORKING_TREE_DIRTY.
C18_DirtyTreeDefersToOperator ==
    workingTree # <<>> =>
        LET w == workingTree[1]
            e == results[Len(results)]
        IN  /\ e.name = "Working tree"
            /\ e.passed <=> (w.statusOk /\ (~w.dirty \/ SaysYes(w.input)))
            /\ e.passed => (pc = "Remote sync" /\ exitCode = <<>>)
            /\ ~e.passed => (pc = "done" /\ exitCode = <<WORKING_TREE_DIRTY>>)
            /\ (w.statusOk /\ w.dirty
                   /\ w.input \in {Typed(<<>>), Eof, Interrupt}) => ~e.passed

\* C18 witness: the tree was dirty, the prompt met end-of-input, and the run
\* ended with WORKING_TREE_DIRTY.
C18_Witness ==
    /\ workingTree = <<[statusOk |-> TRUE, dirty |-> TRUE, input |-> Eof]>>
    /\ LastEntryIs(Entry("Working tree", FALSE))
    /\ pc = "done"
    /\ exitCode = <<WORKING_TREE_DIRTY>>

\* C19: once Version validation has passed with version V, package.json
\* holds V; when the function returned (before any publish step ran) the
\* first "- Current" header of the changelog names V and the tag vV does not
\* exist.
C19_ValidatedVersionIsConsistent ==
    Recorded(Entry("Version validation", TRUE)) =>
        /\ version \in Versions
        /\ pkgVersion = version
        /\ pc \in {"confirm", "finish_analyze_only"} =>
               /\ LastEntryIs(Entry("Version validation", TRUE))
               /\ read_changelog_current_version(changelog) = version
               /\ version \notin tags

LastCallAt ==
    CHOOSE i \in 1..Len(observed) :
        /\ observed[i].event = "call"
        /\ \A j \in (i + 1)..Len(observed) : observed[j].event # "call"

ThisRun == SubSeq(observed, LastCallAt, Len(observed))

Original == ThisRun[1].version

Asks == SelectSeq(ThisRun, LAMBDA e : e.event = "ask")

HasReturned == pc \in {"validated", "done"}

Outcome == observed[Len(observed)]

\* The smallest patch version >= v that has no tag.
RECURSIVE SmallestUntagged(_)
SmallestUntagged(v) == IF v \in tags THEN SmallestUntagged(v + 1) ELSE v

\* C21: when the validated version's tag exists and the operator confirms
\* every bump prompt, a successful validation resolves to the smallest patch
\* version >= the original that has no tag, the candidates offered increase
\* strictly from the original on, and the manifest holds the resolved
\* version.
C21_BumpResolvesToSmallestUntagged ==
    (/\ HasReturned
     /\ Outcome.ok
     /\ Original \in Versions
     /\ Original \in tags)
    => /\ Outcome.version = SmallestUntagged(Original)
       /\ \A i \in 1..Len(Asks) :
            /\ Asks[i].ok
            /\ Asks[i].version > (IF i = 1 THEN Original ELSE Asks[i - 1].version)
       /\ pkgVersion = Outcome.version

\* What the step taken adds to `observed`.
NewEvents == SubSeq(observed', Len(observed) + 1, Len(observed'))

DeclinesBump ==
    \E i \in 1..Len(NewEvents) :
        NewEvents[i].event = "ask" /\ ~NewEvents[i].ok

\* C22: when the operator declines a bump prompt, at whatever iteration, the
\* validation fails at once: it is recorded as failed and the run ends with
\* VERSION_INVALID; nothing was written in the run before the prompt and
\* nothing is written after it, so package.json still holds the version the
\* run read and CHANGELOG.md is as it was.
C22_DeclineFailsWithoutWriting ==
    [][DeclinesBump =>
        /\ results' = Append(results, Entry("Version validation", FALSE))
        /\ pc' = "done"
        /\ exitCode' = <<VERSION_INVALID>>
        /\ cmds = <<>> /\ cmds' = <<>>
        /\ pkgVersion = Original /\ pkgVersion' = pkgVersion
        /\ pkgFields' = pkgFields
        /\ changelog' = changelog]_vars

\* A bump is declined at the second prompt, after one was confirmed.
C22_Witness ==
    /\ HasReturned
    /\ Len(Asks) = 2
    /\ Asks[1].ok /\ ~Asks[2].ok
    /\ ~Outcome.ok
    /\ exitCode = <<VERSION_INVALID>>
    /\ pkgVersion = Original

\* C23: CHANGELOG.md is written by the "Finalize CHANGELOG" step of the
\* publish phase only: no other step, version validation included, changes
\* it or attempts to write it.
C23_ChangelogWrittenOnlyAtFinalize ==
    [][/\ changelog' # changelog => pc = "Finalize CHANGELOG"
       /\ \A i \in 1..Len(cmds') :
            cmds'[i].cmd = "write CHANGELOG.md"
                => cmds'[i].step = "Finalize CHANGELOG"]_vars

\* C24: the validation is idempotent: when it is run again after a run that
\* passed, with nothing else having touched the project, the second run
\* writes neither package.json nor CHANGELOG.md and returns the same version
\* and the same outcome as the first.
C24_SecondRunRepeatsFirst ==
    (/\ HasReturned
     /\ Len(Returns) >= 2
     /\ Returns[Len(Returns) - 1].ok)
    => /\ Outcome.ok
       /\ Outcome.version = Returns[Len(Returns) - 1].version
       /\ cmds = <<>>

\* After a run that passed, the next run always fails.
SecondRunAlwaysFails ==
    (/\ HasReturned
     /\ Len(Returns) >= 2
     /\ Returns[Len(Returns) - 1].ok)
    => ~Outcome.ok

\* C25: when the manifest version is absent or malformed, the validation
\* fails as a recorded VERSION_INVALID: it raises no exception, and when it
\* returns, it returns failure, the log ends with a failed "Version
\* validation" entry and the run ends with exit code 8.
C25_BadManifestVersionFails ==
    (/\ pc \in {"while _is_version_tagged", "raised", "validated", "done"}
     /\ Original \in {NoVersion, Malformed})
    => /\ pc # "raised"
       /\ HasReturned =>
            /\ ~Outcome.ok
            /\ LastEntryIs(Entry("Version validation", FALSE))
            /\ exitCode = <<VERSION_INVALID>>

\* The part of C25 about an absent version.
AbsentManifestVersionFails ==
    (HasReturned /\ Original = NoVersion)
    => /\ ~Outcome.ok
       /\ LastEntryIs(Entry("Version validation", FALSE))
       /\ exitCode = <<VERSION_INVALID>>

\* The run ended at a failed "Version validation".
HaltedAtVersionValidation ==
    pc = "done" /\ LastEntryIs(Entry("Version validation", FALSE))

\* C26: a changelog without a pending-version section and an invalid
\* manifest version are distinct failures: a run that fails the validation
\* because CHANGELOG.md has no "- Current" header ends with
\* CHANGELOG_FAILED, one that fails it because package.json has no readable
\* version ends with VERSION_INVALID.
C26_MissingSectionAndBadVersionDiffer ==
    /\ (/\ HaltedAtVersionValidation
        /\ read_changelog_current_version(changelog) = NoVersion)
       => exitCode = <<CHANGELOG_FAILED>>
    /\ (/\ HaltedAtVersionValidation
        /\ read_changelog_current_version(changelog) # NoVersion
        /\ pkgVersion = NoVersion)
       => exitCode = <<VERSION_INVALID>>

\* Both failures end the run with the same exit code.
BothFailuresAreVersionInvalid ==
    HaltedAtVersionValidation => exitCode = <<VERSION_INVALID>>

\* The name under which the step at position `p` of main() is recorded.
RecordedAs(p) == IF p = "finish_analyze_only" THEN "Package" ELSE p

GhCli == observed[1]

\* C28: when `gh auth status` times out, the GitHub CLI step fails for
\* good: the query was run once, the step is recorded as failed, no later
\* step runs, and the run ends with PREREQUISITE_FAILED.
C28_GhTimeoutFailsPrerequisite ==
    (/\ observed # <<>>
     /\ GhCli.input.which
     /\ GhCli.input.auth = "timeout")
    => /\ ~GhCli.passed
       /\ Len(GhCli.ran) = 1
       /\ pc = "done"
       /\ LastEntryIs(Entry("GitHub CLI", FALSE))
       /\ exitCode = <<PREREQUISITE_FAILED>>

C28_Witness ==
    /\ observed # <<>>
    /\ GhCli.input.which
    /\ GhCli.input.auth = "timeout"
    /\ pc = "done"
    /\ Len(results) = 5

\* How far main() has come: the steps in the order of the code, then the
\* analyze-only finish, then the return.
Progress(p) ==
    CASE p = "done" -> Len(CodeOrder) + 2
      [] p = "finish_analyze_only" -> Len(CodeOrder) + 1
      [] OTHER -> Pos(CodeOrder, p)

RECURSIVE ConsecutiveTagged(_)
ConsecutiveTagged(v) == IF v \in tags THEN 1 + ConsecutiveTagged(v + 1) ELSE 0

InBumpLoop == pc = "while _is_version_tagged"

\* C30: the bump loop terminates: while it runs, a pass is always possible;
\* a pass that stays in the loop leaves a tagged version for a strictly
\* greater one, so that the prompts of a run never outnumber the consecutive
\* tagged patch versions from the original on; and a declined prompt is the
\* last event of the loop: the validation returns in the same pass.
C30_BumpLoopTerminates ==
    /\ [](/\ InBumpLoop => ENABLED BumpLoop
          /\ (InBumpLoop \/ HasReturned) =>
                /\ Len(Asks) <= ConsecutiveTagged(Original)
                /\ \A i \in 1..Len(Asks) :
                      ~Asks[i].ok => i = Len(Asks) /\ HasReturned)
    /\ [][/\ (InBumpLoop /\ InBumpLoop') =>
                /\ version \in tags
                /\ version' > version
                /\ Len(observed') = Len(observed) + 1
          /\ DeclinesBump => ~InBumpLoop']_vars

\* The loop was left after two confirmed bumps.
C30_Witness ==
    /\ HasReturned
    /\ Len(Asks) = 2
    /\ Asks[1].ok /\ Asks[2].ok
    /\ Outcome.version = Original + 2
    /\ Outcome.version \notin tags

\* The relation of local HEAD to upstream as the stated rule decides it.
StatedRelation(g) ==
    IF ~g.upstreamOk THEN "no upstream"
    ELSE IF g.local = g.remote THEN "up to date"
    ELSE IF g.base = g.local THEN "behind"
    ELSE IF g.base = g.remote THEN "ahead"
    ELSE "diverged"

\* C31: after a successful fetch the guard selects exactly the one of
\* NoUpstream, UpToDate, Behind, Ahead, Diverged that the rule names:
\* upstream unresolved -> NoUpstream; local = upstream -> UpToDate;
\* merge-base = local -> Behind; merge-base = upstream -> Ahead; otherwise
\* Diverged.
C31_SyncClassification ==
    (remoteSync # <<>> /\ SyncIn.fetchOk)
        => SyncOut.branch = StatedRelation(SyncIn)

\* What holds instead: the guard has four branches, and whatever is neither
\* of the first three is taken for "ahead".
FourWayClassification ==
    (remoteSync # <<>> /\ SyncIn.fetchOk)
        => SyncOut.branch =
              (IF StatedRelation(SyncIn) = "diverged" THEN "ahead"
               ELSE StatedRelation(SyncIn))

\* The call of check_node in the run.
NodeCall == observed[1]

\* C32: an exception raised inside a step function is not turned into a
\* recorded failure: the step that raises appends no entry to the run log,
\* no report is saved, main() does not return an exit code, and nothing runs
\* after it.
C32_RaisedStepIsNotRecorded ==
    /\ []((observed # <<>> /\ NodeCall.raised) =>
            /\ pc = "raised"
            /\ results = <<>>
            /\ exitCode = <<>>
            /\ ~ENABLED NextNode)
    /\ [][(observed' # <<>> /\ NodeCall'.raised) =>
            /\ results' = results
            /\ reports' = reports
            /\ exitCode' = exitCode]_vars

C32_Witness ==
    /\ observed # <<>>
    /\ NodeCall.raised
    /\ NodeCall.input.rcOk
    /\ pc = "raised"
    /\ results = <<>>

\* The step being taken is Finalize CHANGELOG, and it is recorded as passed.
FinalizePassed == results'[Len(results')].passed

\* C33: finalize_changelog succeeds only when CHANGELOG.md holds exactly one
\* "## [version] - Current" marker of the version; with none or with more
\* than one it fails and leaves CHANGELOG.md as it was.
C33_FinalizeNeedsExactlyOneMarker ==
    [][pc = "Finalize CHANGELOG" =>
        /\ FinalizePassed => CurrentCount(changelog, version) = 1
        /\ CurrentCount(changelog, version) # 1 =>
              ~FinalizePassed /\ changelog' = changelog]_vars

\* What holds instead: it succeeds only with at least one marker, and fails
\* without a write when there is none.
FinalizeNeedsAMarker ==
    [][pc = "Finalize CHANGELOG" =>
        /\ FinalizePassed => CurrentCount(changelog, version) >= 1
        /\ CurrentCount(changelog, version) = 0 =>
              ~FinalizePassed /\ changelog' = changelog]_vars

\* C34: no run ends with the release commit committed and pushed to origin
\* while the tag v{version} has not been created and pushed.
C34_NoPushedCommitWithoutTag ==
    (pc = "done" /\ Ran("git commit") /\ Ran("git push origin branch"))
        => /\ Ran("git tag -a")
           /\ Ran("git push origin tag")
           /\ version \in remoteTags

\* The position of the entry `e` in the run log (0: not recorded).
EntryAt(e) ==
    IF Recorded(e) THEN CHOOSE i \in 1..Len(results) : results[i] = e ELSE 0

CredentialChecks == {"GitHub CLI", "vsce PAT"}

PromptsOf(step) == SelectSeq(observed, LAMBDA p : p.step = step)

\* The prompt received no answer: empty input, end of input or interrupt.
Unanswered(inp) ==
    inp.kind \in {"eof", "interrupt"} \/ strip(inp.text) = <<>>

\* C36: every uninstall or deletion attempted by remove_extension.py was
\* confirmed by the operator at the prompt of its step with an explicit
\* "y" or "yes"; a prompt that received no answer authorises nothing.
C36_RemovalNeedsExplicitYes ==
    \A k \in 1..Len(cmds) :
        /\ Len(PromptsOf(cmds[k].step)) = 1
        /\ SaysYes(PromptsOf(cmds[k].step)[1].input)
        /\ ~Unanswered(PromptsOf(cmds[k].step)[1].input)

\* What holds instead: every removal follows a prompt of its step at which
\* ask_yn returned True, which it also does when there is no answer.
RemovalFollowsPrompt ==
    \A k \in 1..Len(cmds) :
        /\ Len(PromptsOf(cmds[k].step)) = 1
        /\ PromptsOf(cmds[k].step)[1].ok
        /\ (SaysYes(PromptsOf(cmds[k].step)[1].input)
                \/ Unanswered(PromptsOf(cmds[k].step)[1].input))

\* The commands run in the step `step`.
CmdsOf(step) == SelectSeq(cmds, LAMBDA c : c.step = step)

\* C37: with --auto-install build_and_install.py installs the packaged
\* .vsix without prompting: no install question is asked on that path.
C37_AutoInstallDoesNotPrompt ==
    args.auto_install => PromptsOf("Install") = <<>>

\* What holds instead, with or without --auto-install: the install command
\* runs only after the install question was answered "y" or "yes".
InstallFollowsYes ==
    CmdsOf("Install") # <<>>
        => /\ Len(PromptsOf("Install")) = 1
           /\ SaysYes(PromptsOf("Install")[1].input)

\* The positions of the failed entries of the run log.
FailedAt == {i \in 1..Len(results) : ~results[i].passed}

\* C38: the run log holds at most one failed entry, and a failed entry is
\* the last entry of the log.
C38_AtMostOneFailureAndItIsLast ==
    /\ Cardinality(FailedAt) <= 1
    /\ FailedAt \subseteq {Len(results)}

\* C38 witness: a log of several entries whose only failed entry is the
\* last one, recorded by a step of the build-and-validate phase.
C38_Witness ==
    /\ FailedAt = {Len(results)}
    /\ Len(results) > 1
    /\ results[Len(results)].name = "Compile"

\* The steps of the publish phase that must pass for main() to succeed.
MustPassToPublish ==
    {"Finalize CHANGELOG", "Package", "Git commit & push", "Git tag",
     "Marketplace publish"}

\* C39: main() returns SUCCESS only if every recorded step passed, except
\* possibly "GitHub release"; in a publish run SUCCESS implies that the
\* operator confirmed and that Finalize CHANGELOG, Package, Git commit &
\* push, Git tag and Marketplace publish were all recorded as passed.
C39_SuccessMeansAllPassed ==
    exitCode = <<SUCCESS>> =>
        /\ \A i \in FailedAt : results[i].name = "GitHub release"
        /\ ~args.analyze_only =>
            /\ confirmInput # <<>>
            /\ SaysYes(confirmInput[1])
            /\ \A n \in MustPassToPublish : Recorded(Entry(n, TRUE))

\* C39 witness: a publish run confirmed with a padded, mixed-case "yes"
\* returned SUCCESS although its GitHub release entry failed.
C39_Witness ==
    /\ exitCode = <<SUCCESS>>
    /\ ~args.analyze_only
    /\ confirmInput = <<Typed(<<" ", "Y", "E", "s">>)>>
    /\ FailedAt = {Len(results)}
    /\ results[Len(results)].name = "GitHub release"

\* This run was invoked after a publish run that stamped the changelog and
\* then failed, with nothing repaired by hand since.
Reinvoked == priorRuns # <<>>

\* C40: every invocation that follows such a failed publish run fails at
\* Version validation with exit code 8 and executes no publish-phase action.
C40_RerunFailsAtVersionValidation ==
    (Reinvoked /\ pc = "done") =>
        /\ exitCode = <<VERSION_INVALID>>
        /\ LastEntryIs(Entry("Version validation", FALSE))
        /\ ~PublishPhaseEntered

\* C40 amended: every invocation that follows such a failed publish run
\* fails at Version validation, with exit code 8, or at an earlier step, and
\* executes no publish-phase action: Version validation never passes, the
\* publish confirmation is never asked and nothing is packaged.
C40_RerunNeverPassesVersionValidation ==
    Reinvoked =>
        /\ ~PublishPhaseEntered
        /\ confirmInput = <<>>
        /\ \A i \in 1..Len(results) :
               /\ results[i].name \in AnalysisStepNames
               /\ results[i].name = "Version validation" => ~results[i].passed
        /\ pc = "done" =>
               /\ FailedAt = {Len(results)}
               /\ exitCode # <<SUCCESS>>
               /\ results[Len(results)].name = "Version validation"
                      => exitCode = <<VERSION_INVALID>>

\* C40 witness: the earlier run failed at Git tag, and the next invocation
\* got as far as Version validation and ended there with exit code 8.
C40_Witness ==
    /\ Reinvoked
    /\ priorRuns[1].failedAt = "Git tag"
    /\ pc = "done"
    /\ exitCode = <<VERSION_INVALID>>
    /\ LastEntryIs(Entry("Version validation", FALSE))

====
